# Models of hw_fall_2013

TLA+ models of the programs in this repository, the TLC configurations that
check them on small instances, and TLAPS proofs about them for instances of
every size. The repository is a collection of independent homework programs in
C++ and Scala. They share nothing but a few conventions (`MY_ASSERT`: an `assert`
in the pool, an exception in the geometry), so the models fall into independent
groups, one per program.

## The system

| component | source | state | operations |
|---|---|---|---|
| thread pool | `hpc/threadpool/threadpool.h` | `tasks_queue_`, `tasks_threads_`, `tasks_to_cancel_`, `idle_threads_`, `threads_`, two counters, `time_to_die_`; a mutex and a condition variable; per thread its place in `thread_run`, its local `task`, boost's interruption request | constructor, `add_task`, `cancel_task`, destructor; the threads' `assign_task`, `run_task`, `unassign_task` |
| console | `hpc/threadpool/main_threadpool.cpp` | the global `pool` pointer | `add`, `cancel`, `quit`, SIGINT |
| range tree | `geom/.../range_tree.h`, `tree.h` | points; per node two orders and cascade pointers | constructor, `query` |
| segment tree | `geom/.../segment_tree.h` | segments; per node an interval and a sorted list | constructor, `query` |
| windowing | `geom/.../segment_windowing.h` | one range tree, two segment trees | constructor, `query` |
| viewer | `geom/.../main.cpp` | segments, a half-drawn segment, a window, the lazily built windowing, highlights | mouse press, mouse move, two keys |
| icmp client and server | `network/icmp` | none that outlives a message, but the client's wait | request, reply, decode, encode |
| chat | `network/chat` | the acceptor | accept; unfinished, does not compile |
| graph traits | `scala/graph` | an adjacency map | `makeNode`, `connect` |
| my_lang | `scala/my_lang` | variables and functions of a context | parse, evaluate |

`...` is `segment_tree/segment_tree`. `geom/primitives` and `visualization`,
which the geometry includes, are not in the repository; they are modelled from
the way they are used (orders, cross product, range operations; an event loop).

How they interact: the console calls the pool from the main thread, and from a
signal handler. The pool's threads and its client share everything through
`tasks_mutex_`, but for `time_to_die_`, which is atomic and written without it,
and wake each other through `tasks_cond_` and boost's interruptions; they share
the screen through `cout_mutex`. The viewer
owns a windowing through a `shared_ptr`, the windowing its trees by value; all of
it runs on one thread, and failures travel as exceptions. The icmp programs
exchange packets that may be lost, duplicated or answered by somebody else. The
Scala programs have one thread each.

What is hard in it:

- the pool: a wakeup that reaches nobody, an interruption that reaches the wrong
  task, bookkeeping spread over several critical sections, the unprotected flag,
  and the shutdown;
- the trees: boundary cases (ties, equal points, empty intervals, vertical
  segments, limits at the end of a vector) that random tests like `range_test`
  hardly produce, and an order by which `boost::sort` and `lower_bound` only work
  if it is one;
- the viewer: a cached structure, and an exception out of an event handler;
- the console: a signal handler that destroys what main is using, on main's own
  thread (POSIX) or beside it (Windows);
- the icmp programs: a network that promises nothing, messages without a name, and
  a decoder that does not notice what is missing;
- the Scala programs: nodes that are the same if their colours are, an edge that
  is added in two steps, names that are looked up in maps.

`PROJECT.json` lists these hazards by line, with the property that would notice, or why
none does.

## Modules

    TaskBoard                       what the client of a pool may rely on
    ThreadPool                      threadpool.h
      ThreadPoolInv                 its inductive invariant
        ThreadPoolBoard             ThreadPool implements TaskBoard
          ThreadPoolProofs          theorems about both
    RangeTree, RangeTreeMC          range_tree.h
      RangeTreeProofs               theorems
    Geometry                        segments and windows; what windowing_t promises
      SegmentTree                   segment_tree.h, as operators
        Windowing, WindowingMC      segment_windowing.h
          WindowingProofs           theorems about all three
      Viewer, ViewerMC              main.cpp, over the promise
        ViewerProofs                theorems
    Console                         main_threadpool.cpp
      ConsoleProofs                 theorems
    TimeService                     what the user of a timestamp client may rely on
    IcmpPacket                      shared.h, icmp_header.hpp, ipv4_header.hpp
      IcmpTimestamp, IcmpMC         client.cpp, server.cpp, network; a TimeService
        IcmpProofs                  theorems about both
    AdjacencyGraph                  graph.scala
      AdjacencyGraphProofs          theorems
    MyLang                          my_lang.scala
      ScalaMC                       both of them, for one run
    Inductions                      induction, as the prover can apply it

Definitions are named after the code where it has a name. Definitions marked
"mutant" are plausible mistakes; nothing uses them, and each property is known to
fail when the definition below is replaced by one of them.

### ThreadPool

One action per critical section of `tasks_mutex_`. `assign_task` is the
exception: it reads `time_to_die_` in `pred` (185) and again at 199, with a wait
in between, and these reads interleave with `cleanup`, which writes the flag
without the mutex. So the section is cut into `Lock`, `EvalPred`, `Wait` or
`ReturnNone`, `SkipCancelled`, `AssignTask`, and a thread in one of the locations
of `Holding` owns the mutex. `wait(lock, pred)` is its loop: `woken` threads
reacquire the mutex and evaluate `pred` again. `timed_wait(lock, timeout, pred)`
returns `pred()` once the deadline has passed, and `assign_task` ignores what it
returns: `timedout` threads go on to `check` and look at the queue.

`tasks_cond_` is the set of threads in `waiting`: `notify_one` moves any of them,
or nobody; `notify_all` all; a spurious wakeup one. A thread that times out has
left the set, and a notification cannot reach it any more.

boost's interruption request is one flag per thread: set by `interrupt()`, taken
at an interruption point. `run_task`, whose task is a sleep, which is one, takes it
and returns false. The point in `thread_run`'s loop (116-123) swallows a
request that came too late. Waiting on `tasks_cond_` is a third one, outside of
any `try`; there is no action for `thread_interrupted` escaping from it because
`InterruptionNeverReachesWait` shows that no request is pending there.

The client may call `add_task` and `cancel_task` with any id in any order until
it destroys the pool; `ClearQueue`, `SetTimeToDie`, `NotifyAll` and `Join` are the
four parts of `cleanup`. What a task does is left out but for whether it ends
(`Endless`), and output through `cout_mutex` is `Console`'s. `time_to_die_` is an
`atomic_bool`: reads see the old or the new value, at any interleaving.

### TaskBoard

The abstract specification: a task is queued, then removed, dropped or running,
then finished or canceled; starts are first in, first out. What `cancel_task`
answers is part of its state, so that the refinement is about the answers too, and
an answer that changes nothing else is no stutter: TERMINATED is for tasks that have
started, NOT_FOUND for tasks that neither wait nor run. REMOVED_FROM_QUEUE is weaker
than its name: the task never starts, but it may have been removed before
(`RemoveAgain`), as the run `v_cancel_twice` shows of the code. `ThreadPoolBoard`
gives the pool the same variable, and maps the rest by what `run_task` has returned,
`tasks_threads_`, the answers given and the queue.

### RangeTree

A node's `x_ordered` is a contiguous piece of the root's, so the node is the pair
of its bounds, its children are its halves, and the split at `med` needs no
copying. `y_ordered` and the cascade pointers are kept per node as the code does,
and built by one `BuildInner` per call of `build_tree`, with the assertions of
`split_subset`. `Descend`, `Walk`, `EndLeft` and `EndRight` are one round or the
end of a loop; run_left and run_right are mirror images, and share `Walk`.

### SegmentTree, Windowing

The segment tree is built level by level from the elementary intervals, as
`make_parents` does. `Stores` is the recursion of `insert_segment`. `SortSegments`
is what `boost::sort` may make of a list: `compare_segments` is no order on
arbitrary segments, so nothing is assumed but what the insertion sort at its end
has seen, that of two neighbours the second is not less than the first. `LowerBound`
is the bisection itself, because on a list that is not monotone its answer depends
on where it looks. Which other comparisons `boost::sort` makes is not modelled:
where some pair of a list fails the assertion of `compare_segments` the constructor
may throw (`InsertThrows`); if the two are neighbours it must.

`Windowing` goes through the constructor (range tree, then the two segment
trees), then answers any number of queries. It uses of the range tree what the
run `range_tree` checks: it throws exactly for equal points, finds the points
inside, and may add one that is right in y only.

What the answers are compared with is in `Geometry`: whether a segment meets a
window is decided by ranges and by the sides of its corners, without any tree.
`Clear` is the exemption: no segment lies on the line of a side of the window.
Such a segment has every point of the line on the same side, so where a bisection
meets it, it may turn the wrong way. This is not only a theoretical possibility.
Of the disjoint segments (5,1)-(3,5), (3,4)-(1,5) and (3,0)-(3,2) the last is
reported for x in 0..3, y in 3..5, which it does not meet; and of (4,3)-(3,0),
(2,1)-(0,2), (5,3)-(2,5) and (1,2)-(2,2) the first is missed for x in 0..4, y in
2..3, which it passes through: the model does so, and so do the code's steps with
an insertion sort. Nothing in the repository promises otherwise, so this is no
finding, but a caller should know. What ends in the window is always reported.

### Viewer

The handlers, one action per branch. `old_window_` is a Boolean, as it is only
drawn. The windowing is the promise at the end of `Geometry`, which the run
`windowing` checks and `WindowingProofs` proves: when it fails, and which answers
are possible. An exception
that leaves a handler ends the program: Qt does not support it, and the event
loop is not in the repository.

### Console

`loc` is where main's loop and the SIGINT handler are. `platform` decides what the
handler is: on POSIX it interrupts main's thread, wherever main is, and main stands
still (`At`) until it returns, which it does not; on Windows it is a thread of its
own. `pool.reset()`, of "quit" and of the handler, is the same code: `Reset` reads
the pointer, `Swap` clears it, and `Destroy` goes through the destructor, which
takes `cout_mutex` and `tasks_mutex_`, sets `time_to_die_`, notifies and joins. The
pool is its life (`object`), the two mutexes, and its threads, each of which takes one
mutex at a time, waits in `tasks_cond_` (with the same gap between `pred` and the wait
as in `ThreadPool`: `blocking`), has a task, or leaves; the queue is `ThreadPool`'s
matter, so whether a thread finds a task in it is a choice.
The end `crash` stands for undefined behaviour and for the assertion of
`scoped_ptr`: a call on a null or destroyed pool, a second destruction, a thread
added to a group that is being joined.

`CrashIsRace` draws the line: on one thread never, on two only where main had
tested the pointer (59) before the handler cleared it, or both destroy the pool.
`SigintEnds` says what may keep the handler, and that nothing else does: on POSIX it
has interrupted main with one of the mutexes in hand, and waits for its own thread;
or it joins (`JoinIsStuck`) a thread with a task, which the destructor does not
interrupt and which need not end, or a hot thread that `notify_all` has missed, which
is `v_cleanup_hangs` again. The property is stated of every state since the signal,
not of the signal alone: an exemption that passes does not excuse what comes later.

### TimeService, IcmpPacket, IcmpTimestamp

A datagram is a sequence of 16-bit words, as sent and received: the IP header that
a raw socket also delivers, then the ICMP message. `icmp_encode` and `icmp_decode`
do what the code does with these words, the checksum included; byte order is the
same on both sides of a word. `icmp_decode` never looks at the state of the stream:
`Data` is what arrived, or, if the message was short, any value of `Junk`, as the
variable was not initialized. The body's `sum` does not reach 2^32.

A client's `main` sends one request and loops over `receive_reply`; it can be run
again. The server's loop is `receive_request` and `send_reply`, with its two
readings of the clock. Each raw socket gets a copy of whatever comes to its host
while it is open, other programs' messages included. The network (external) loses
without a bound, reorders, and duplicates or lets others speak `MaxNoise` times.
Exceptions end a client (`GiveUp`, as its user's patience does) or the server, for
everybody (`ServerEnds`). `requests`, `given`, `replies`, `lost` and the like are
history for the properties.

`TimeService` is what is left for a user: what is printed was stamped by the
service, in that order, and given to the user's host after somebody there asked.
Not that it answers the user's own question: identifier and sequence number are
always 0, so a late reply or one to another client is taken, and the abstract
specification says so. `ImplementsService` shows that this is all that can go
wrong as long as strangers are silent.

### AdjacencyGraph, MyLang

`AdjacencyGraph` is all four combinations of the traits. A node of a `ColoredGraph`
is its colour, so `makeNode` can meet an old one, and empties its list.
`connectImpl` throws when `a` has no list; in a `BiDirListGraph` this can happen
between the two directions (`Halfway`). `EdgesAreMutual` names these two as the only
ways to an edge of one direction.

`MyLang` is the evaluator, class by class, on syntax trees: values are expressions,
exceptions are values that every evaluation hands on, the first in the order of
evaluation. Ints wrap around at `IntMax`; the JVM's doubles are constants
(`DoubleArithmetic`, ...), as nothing depends on their digits but what zero and NaN
do. The stack is `MaxDepth` calls. The two properties compare `run` with other
definitions: a typing (`TypeOf`: a program that fits its types returns a value of
its type, or divides an Int by zero, or exhausts the stack), and an evaluation of
main without scopes, by substitution of values in the text (`EvalBySubst`).

## Runs

| run | instance | shows |
|---|---|---|
| `pool_safety` | 1 hot thread, 3 tasks, 1 spurious wakeup | `BoardInv` (with the inductive invariant in it) and every safety property; `ImplementsBoard`: the order of the tasks, and each answer of `cancel_task` |
| `pool_liveness` | 1 hot thread, 2 tasks, the first endless, 1 spurious wakeup | which tasks may wait for ever, terminated tasks end, workers retire, the destructor's flag arrives |
| `v_stranded` | no hot thread, 2 tasks | a task can be left without a thread (line 73's assertion does not help) |
| `v_cleanup_hangs` | 1 hot thread, 1 task | the destructor can wait for ever |
| `v_cancel_twice` | 1 hot thread, 1 task | REMOVED_FROM_QUEUE is answered for a task that is in no queue |
| `range_tree` | all sets of up to 5 points of 3 x 3, all triples with a point twice, all windows | construction, cascading, answers |
| `v_range_leaf` | up to 2 points of 2 x 2 | a point outside of the window is reported (main.cpp:57) |
| `windowing` | all pairs of segments of 3 x 3, all triples of disjoint ones, all windows | when construction fails, the order of the lists, answers |
| `viewer` | 2 segments between 5 points | the structure is current, highlights follow the window |
| `console` | 2 platforms, 2 threads in the pool | which interleavings of main and SIGINT are undefined, leave threads running, or hang |
| `icmp` | 2 clients on a host, 2 requests, 1 duplicated or foreign datagram, 2 seconds around midnight | checksums, the number of replies, `ImplementsService`, who waits for ever |
| `scala` | 3 nodes, 4 calls of connect; 64,000 programs | mutual edges; typed programs run; lexical scopes |

Runs named `v_...` are expected to find a violation: each states what an
assertion, a name or a comment of the code says, and TLC shows a behaviour of the
code that contradicts it. `findings` in `PROJECT.json` quotes both.

Why the bounds suffice. Pool: three tasks make one hot thread and three workers
possible, so that a notification has a choice, one thread can time out while
another is woken and a third runs; the queue reaches length three, with cancelled
tasks before, between and behind others. One spurious wakeup can strike at any
wait Invariants, moreover, are proved without bounds. Range tree: five points
give a tree of depth three, with halves of unequal size at every level and, on a
3 x 3 grid, ties in both coordinates; windows reach from before the first point
to behind the last. Windowing: three disjoint segments are the fewest for which
an order that is not transitive, or a bisection of a list in a wrong order, can
go wrong: it does, for vertical segments, which `Clear` therefore exempts. Pairs
cover all ways to touch, cross and degenerate. For longer vectors there are the
theorems. Viewer: two segments let one be drawn after
a window was opened and closed over the other; with five points windows have
segments through them and beside them. Console: two threads, one of
them hot, let each hold a mutex while the handler waits, one sleep or run while the
other leaves, and another be created meanwhile. Icmp: with two
clients on a host a reply reaches both, or the wrong one; the noise can be a
duplicate, or a reply, a ping or a request that ends before its data, with IP
options; the clock starts one second before midnight, so stamps decrease, and
`Junk` is chosen so that a reply's sum needs its second carry. Graph: three nodes
and four calls give double edges, loops, colours made again and unknown nodes.
My_lang: main has one or two assignments and an expression over them, for four lists
of functions and structs (a function using a name of its caller's, one assigning to
its argument, one recursive, and one list with every name defined twice or
wrongly); about 16,000 programs are typed, of which some hundred divide by zero or
overflow the stack, and every exception of the evaluator occurs in the others.

Pressing Space in a fresh viewer builds the structure of no segments and fails the
assertion of segment_tree.h:176; `Viewer` has this step (`threw`), but no run is
spent on a fact that takes one step to see.

No run checks for deadlock: a destroyed pool, a viewer that threw, a constructor
that threw, an exited program and an evaluated one have ended; clients may wait for
ever (`WaitsOnlyForLosses`); and `cleanup` may hang, which `v_cleanup_hangs` and
`SigintEnds` are about.

### Fairness

Weak fairness of each thread's steps and of `cleanup`: operating systems schedule
runnable threads, deadlines pass, sleeps end. A thread that wants the mutex is
enabled only while it is free, so weak fairness alone would let it starve if
others could take it again and again; they cannot, as in every behaviour all
threads together take finitely many steps: each add and each spurious wakeup,
both bounded, causes finitely many. The client owes nothing, nor does the
condition variable (no fairness of spurious wakeups). For two properties the
instance matters: `TasksAreServed` needs a hot thread (without one `v_stranded`
refutes it), and `TerminatedTasksEnd` an endless task, as others end anyway.

A queued task may wait for ever even so. `add_task` creates a worker only if no thread
is idle (70), and a thread is idle until it takes a task. After two calls in a row,
while one thread is idle, two tasks are queued for it: if the first does not end, the
second is never run, though a third call would create a worker, which would take it.
The instance has this case (its first task is endless), and `TasksAreServed` says that
it is the only one: a task waits for ever only if every thread there is has a task
that does not end. Without the exemption TLC finds just this behaviour. Nothing in the
repository promises the second task a thread, so it is no finding.

`ToldThreadsLeave` is what remains true of the shutdown that `v_cleanup_hangs` refutes:
of the threads that have no endless task only one between `pred` and the wait can miss
the flag. `WorkersRetire` is about a client that stops: each add can keep a worker for
one more timeout, and the instance has two.

Console: strong fairness of the handler's steps, which wait for mutexes that the
pool's threads take again and again but hold for an instant only; weak fairness of
whoever has to release one, which main, interrupted by a handler on its own thread,
never can; timeouts pass. Of a pool's thread it is assumed that it leaves only if it is
awake, has no task and finds the flag set: on its way out it takes finitely many
mutexes (strong fairness, as it needs them free). It is not assumed that a thread
without a timeout wakes, or that a task ends. `ThreadPool`'s `ToldThreadsLeave` shows
of the detailed threads, under weak fairness, what the console's do by theirs. main
owes nothing: it may sit in `getline` for ever.

Icmp: weak fairness of both loops and of delivery as such: what is neither lost nor
reordered for ever arrives. Each datagram can be lost, the server can end, and no
client has to start or to give up; `WaitsOnlyForLosses` needs no more.

## Proofs

Each of these modules proves, for every value of the constants that its
assumptions allow, what the runs check on an instance. All follow one pattern: an
inductive invariant, a lemma for every action, `InvariantHolds` from them, and the
properties from the invariant. TLC has checked the invariants first.

### The pool

`ThreadPoolProofs`: any number of hot threads, tasks and spurious wakeups, from
`ConstantsAssumption` alone.

- `InvariantHolds`: the inductive invariant `IInv`;
- `TypeCorrect`, `IdleThreadsAreExact`, `AssignmentsAreExact`,
  `RemovedTasksNeverRun`, `OnlyTerminatedIsCanceled`, `WaitIsNeverInterrupted`,
  `HotThreadsNeverRetire`, `NoWakeupIsMissed` from it;
- `EveryTaskHasATaker`, if there is a hot thread.

None of the properties is inductive by itself. `RemovedNeverRuns` needs to know
that a removed task is marked as long as it is in the queue, and that a task is in
the queue once: otherwise the first copy would take the mark away.
`CanceledWasAsked` needs that a pending request is for the task at hand
(`RequestIsForTask`), which in turn needs `AssignmentIsExact` when `cancel_task`
sets it and `InterruptionNeverReachesWait` when the next task starts.
`HotThreadsStay` and `NoMissedWakeup` need what a thread inside `assign_task` knows
while it holds the mutex (`HoldersKnow`), and for that mutual exclusion.
`NoMissedWakeup` counts: while somebody sleeps, the queue is no longer than the set of
threads on their way to it. `AddTask` adds one to both, since it wakes a thread when one
sleeps (`AddTaskWakes`); a thread that takes or skips a task takes one from the queue;
and a thread falls asleep only when it has seen the queue empty (`WakeupStep`).
`ThreadsAreCounted` bounds the threads by the calls of `add_task`. Each conjunct
has a lemma that the step preserves it, citing only the conjuncts it needs;
`StepPreserves` puts them together.

`BoardInvariantHolds` and `PoolImplementsBoard` are the refinement, step by step. What `IInv` does not say and the mapping needs is in
`BoardInv`: the queue ascends (the first id of it is the lowest, which is what first
in, first out means to the board), a task without a thread is in the queue or was
removed, marks are only on removed tasks, and a task has its outcome between
`run_task` and `unassign_task`. Then `AddTask`, `AssignTask`, `Finish`,
`TakeInterruption` and `ClearQueue` are steps of the board; so is every call of
`cancel_task`, with its answer (`CancelNotFoundMisses`, `CancelQueuedRemoves`); and
every other action is silent: it changes nothing that the board shows, but for the
answer of the step before, which is over.

### The console

`ConsoleProofs`: any set of pool threads, both platforms; `TypeCorrect`,
`NoUseAfterReset`, `ThreadsAreJoined`. As long as the handler has not cleared the
pointer, what main knows of pool and object depends on its location only
(`MainAlone`); a handler that came before the pool was published found nothing and
changes nothing; afterwards main's next test fails if it was before it
(`TestIsAhead`). On POSIX main stands where it was interrupted (`MainStands`).

### The icmp programs

`IcmpProofs`, of the encoding: any header, any IP options, data of any length whose sum fits an
unsigned int; up to 32,767 values of 32 bits it does (`DataFits`), more than a
datagram of 65,535 bytes has.

- `TwoFoldsAreEnough`: two folds leave no carry, and sum and checksum add up to a
  positive multiple of 65535. The argument is the carry of the first fold, which is
  at most 1.
- `DecodeInvertsEncode`: what is decoded is what was encoded, and garbage only
  beyond it.
- `EncodedVerifies`: the words of a message with its checksum verify. `SumOf` is a
  recursive function; what it does to a longer message is shown by induction over
  the length. The library's induction theorems take operators, so `Inductions` has
  induction for sets of numbers, derived from the well-foundedness of the order on
  `Nat`, and recursion for functions.

Of the programs: any clients, hosts, times, noise and strange datagrams, from
`IcmpAssumption`, `StrangeAssumption` and `JunkAssumption`.

- The invariant is about every datagram there is, in the network or in a socket's
  buffer (`EverythingIsSound`), and about the request the server has at hand
  (`JobIsSound`): a datagram is from a client, with a stamp of its host, or from the
  server, with a stamp of the addressee's and the two times of one service.
- `TypeCorrect`, `RepliesAreEchoes` (a reply repeats a stamp of its addressee's; no run
  checks this apart) and `MessagesVerify` follow, and
  `ProgramsAreTimeService`: a client's print is a step of the service because of
  what its reply is, everything else is a start, an end or a stutter.
- `RepliesAreBounded` needs a count (`Budget`): replies, and requests on the way, in
  the server's socket and in its hands, are together no more than were made. Only
  sending, duplicating and intruding raise the second, each by one.

### The range tree

`RangeTreeProofs`: any vector of points with integer coordinates, any windows
(`CoordinatesAssumption`).

- `ThrowsForEqualPoints`: the assertions of the constructor fail only for equal
  points, and for these it never finishes. `check_subset`, on sorted lists, comes down
  to lengths (`CheckedByLength`). That a part of a y order has the points of its half
  comes from counting: the points less than the median are all in the left half, so
  if there are as many as the half has places, they are the half, and the rest is
  the other.
- `LimitsAreBounds`: fractional cascading. A pointer is exact (`Exact`) when what is
  before it in the child's order, and only that, is less than the point it belongs
  to; `PointersAreExact` proves this of the constructor's loop by induction over its
  rounds, `SublimitIsBound` that a limit which is a lower bound in a node is led to
  the lower bound in the child, the limit at the end included.
- `QueriesMissNothing`, `ExtraOnlyInLeaf`: what the walk knows. On its way to the
  split, everything in the window's x range is below the node (`BelowNode`); on the
  way left and right, what is outside of the node has been decided and `found` has
  exactly the decided points that are in the window (`LeftAt`, `RightAt`).
- `AnswersAsWindowingExpects`, from both: a query returns the points inside, or, if
  there are none, one that is right in y. `Windowing` is built on this.

The invariant has the tree (each node's y order is its piece of the x order, each
point once; pointers exact; open calls side by side, with nothing built below them)
and the query. That both orders of the root are sorted and have each point once is
what the model takes `boost::sort` to do.

### Windowing

`WindowingProofs`: any vectors of segments with integer coordinates, of any length,
touching and crossing ones and duplicates included, and any windows
(`InputsAssumption`). The argument goes from the geometry up.

- *The tree.* `Ascending` lists the endpoints in order (`AscendingSorts`); the
  elementary intervals follow one another, `Parents` keeps that and the span and
  leaves no interval empty (`Row`, `ParentsRow`), and the levels, each half as long
  as the one before, end in one node (`LevelsAreTower`). So everything the code
  asserts of the tree holds: `TreesAreWellBuilt`.
- *The order.* If each of two segments has the ends of the other on different
  sides, the lines meet within both: `IncomparableTouch`. So `compare_segments`
  throws for touching segments only. If they are comparable and both cross the
  vertical at x, the lower is the one that it says: `OrderAtPoint`, by writing the
  cross product of a point on the vertical as a combination of those of the four ends
  (`Affine`), with weights that are not negative. Neighbours in order are then
  enough for a monotone list (`SortedIsMonotone`): no transitivity of the comparison
  itself is needed, only of "below a point".
- *The query.* `Bisection`: `LowerBound` is right for monotone lists, of any length.
  `StoredOnPath`: a segment whose x range contains x is stored in a node on the path
  that the query takes, the first whose interval it covers; there is one, because no
  endpoint is inside an elementary interval (`NoEndInside`). With both, `QueryFinds`:
  a query finds what the vertical crosses between y.inf and below y.sup, and never
  anything but indices.
- *The window.* `PassingIsFound`: a segment through the open window ends in it, or is
  found at its left side, or at the lower or the upper side by the second tree, which
  sees the plane mirrored (`MirroredLeft`). `FoundMeets`, `TurnedMeets` and
  `EndingMeets`: what is found meets the window.

`IInv` then says what each phase of the constructor and of the query has: the levels
of a tree before its lists are filled, both trees once it is ready, and which of the
five queries are in `res`. It is inductive, and

- `TypeCorrect`, `ConstructorThrows`, `BisectionsAreSound`, `NoneIsMissed` and
  `OnlyThoseThatMeet` are the five properties of the run, without its bounds;
- `AnswersAsTheViewerExpects` is the promise that `Viewer` is built on: every answer
  is in `Answers(segments, window)`.

The weakest place of the code is where the theorems have `Clear`. It cannot be
dropped, as the examples above show.

### The viewer and the graph

`ViewerProofs`: any points and any number of segments, from `NoneIsNoSegment`:
`TypeCorrect`, `StructureStaysCurrent`, `OneGestureAtATime`,
`HighlightsFollowTheWindow`, with `Consistent` as invariant. What it says of the
highlights rests on `Geometry`'s promise, which `WindowingProofs` proves of
`Windowing`.

`AdjacencyGraphProofs`: any nodes and calls. `EdgesStayMutual` needs that no list
names a node that is not there, unless a connection failed halfway
(`NothingDangles`): otherwise a node that is made later would have edges to it and
none back. Edges are counted; `AddEdges` changes both counts by one, or a loop's by
two.

### Model-checked only

- Liveness: `pool_liveness`, `SigintEnds`, `WaitsOnlyForLosses`. The prover has no
  ENABLED.
- The four runs that find a violation: TLC's behaviours are the argument.
- `MyLang` (`TypedProgramsRun`, `ScopesAreLexical`): its evaluator is recursive over
  syntax trees and calls, so a `RECURSIVE` operator, about which the prover cannot
  reason.

That `Windowing`'s range tree is `RangeTree`, and the viewer's windowing `Windowing`, is
by reading: `BuildRanges` and `QueryInner` are what `ThrowsForEqualPoints` and
`AnswersAsWindowingExpects` say, `Fails`, `MayFail` and `Answers` what
`ConstructorThrows` and `AnswersAsTheViewerExpects` do. The modules are not composed.

## Not modelled

- `value_for_x` and `get_id`: nothing calls them. `segment_test` and `range_test`:
  tests, whose assertion is checked instead. Drawing and printing.
- Overflow of the cross product: its width is that of `geom/primitives`.
- The chat: it does not compile and its client only writes one word.
- my_lang's grammar: a table of parser combinators, whose meaning is the library's.
- The end of the console's input: `getline` fails and the loop prints Error for
  ever; in `Console` it is a line as any other.
- Corrupted packets (nobody verifies a received checksum), and the fields of the IP
  header that nobody reads.
- Copies and scratch files (`scala/my_lang.scala`, `test.scala`), build files.

## What could come next

Every component with a behaviour is modelled, and every invariant and action property
of the C++ programs and of the graph that a run checks is also a theorem. Open:

1. A composition in which `Windowing`'s range tree is an instance of `RangeTree`,
   and the viewer's `windowing_` one of `Windowing`, in place of the two promises.
2. `MyLang` over syntax trees given as functions of numbered nodes, on which its
   evaluator would be a recursive function, and its typing provable by induction.
