------------------------------ MODULE Parallel ------------------------------
(***************************************************************************)
(* jenkins_jobs/parallel.py: the @concurrent decorator that update_jobs    *)
(* and update_views use to upload many items at once.                      *)
(*                                                                         *)
(* The calling thread spawns n_workers daemon threads, puts one task per   *)
(* element of the list in a FIFO queue, then one "done" per worker, takes  *)
(* as many results from a second queue as there were tasks, joins the      *)
(* workers and sorts the results by the number each task was given.  The   *)
(* two queues are queue.Queue: put never blocks (no maxsize), get blocks   *)
(* while the queue is empty.                                               *)
(*                                                                         *)
(* A run of the decorated function ends with one of Results: a value, or   *)
(* an Exception, which Worker.run catches and hands over as a value.       *)
(***************************************************************************)
EXTENDS Integers, Sequences, FiniteSets

CONSTANTS
    TaskCounts,   \* the lengths the `concurrent' list may have
    WorkerCounts, \* the values of n_workers a caller may pass, 0 included
    CpuCount,     \* multiprocessing.cpu_count()
    Results       \* what a run of the decorated function may end with

(* update.execute rejects a negative --workers; cpu_count() is at least 1. *)
ASSUME ParallelAssumption ==
    /\ TaskCounts \subseteq Nat
    /\ WorkerCounts \subseteq Nat
    /\ CpuCount \in Nat \ {0}

VARIABLES
    pc,        \* where the calling thread is
    n,         \* len(p_kwargs)
    n_workers, \* the caller's n_workers, later the size of the pool
    pool,      \* worker_pool: the state of each thread and the task it runs
    in_queue,  \* task numbers, then "done" (Done) once per worker
    out_queue, \* the (ord, result) pairs not yet taken
    n_ord,     \* number of tasks put in in_queue
    dones,     \* number of "done" put in in_queue
    results,   \* the pairs taken from out_queue
    joined,    \* number of workers joined
    calls,     \* history: calls[o] lists the ends of the runs for task o
    ret        \* <<>>, then what the call hands back

vars == <<pc, n, n_workers, pool, in_queue, out_queue, n_ord, dones,
          results, joined, calls, ret>>

(* The string 'done' of the code; every task number is at least 0.         *)
Done == -1

Ords == 0..(n - 1)

Idle == [state |-> "idle", ord |-> Done]
Busy(o) == [state |-> "busy", ord |-> o]
Gone == [state |-> "gone", ord |-> Done]

-----------------------------------------------------------------------------
Init ==
    /\ pc = "start"
    /\ n \in TaskCounts
    /\ n_workers \in WorkerCounts
    /\ pool = <<>>
    /\ in_queue = <<>>
    /\ out_queue = <<>>
    /\ n_ord = 0
    /\ dones = 0
    /\ results = <<>>
    /\ joined = 0
    /\ calls = [o \in Ords |-> <<>>]
    /\ ret = <<>>

(* `if len(p_kwargs) in (1, 0): return func(...)': no pool, and what func  *)
(* raises is raised to the caller.                                         *)
RunInline ==
    /\ pc = "start"
    /\ n \in {0, 1}
    /\ \E r \in Results :
        /\ calls' = [o \in Ords |-> <<r>>]
        /\ ret' = <<r>>
    /\ pc' = "returned"
    /\ UNCHANGED <<n, n_workers, pool, in_queue, out_queue, n_ord, dones,
                   results, joined>>

ChoosePoolSize ==
    /\ pc = "start"
    /\ n \notin {0, 1}
    /\ n_workers' = IF n_workers = 0 THEN CpuCount ELSE n_workers
    /\ pc' = "spawn"
    /\ UNCHANGED <<n, pool, in_queue, out_queue, n_ord, dones, results,
                   joined, calls, ret>>

SpawnWorker ==
    /\ pc = "spawn"
    /\ pool' = Append(pool, Idle)
    /\ pc' = IF Len(pool') = n_workers THEN "feed" ELSE "spawn"
    /\ UNCHANGED <<n, n_workers, in_queue, out_queue, n_ord, dones, results,
                   joined, calls, ret>>

(* Mutant of FeedTask: the loop runs once too often.                       *)
FeedTaskOneMore ==
    /\ pc = "feed"
    /\ in_queue' = Append(in_queue, n_ord)
    /\ n_ord' = n_ord + 1
    /\ pc' = IF n_ord = n THEN "dismiss" ELSE "feed"
    /\ UNCHANGED <<n, n_workers, pool, out_queue, dones, results, joined,
                   calls, ret>>

FeedTask ==
    /\ pc = "feed"
    /\ in_queue' = Append(in_queue, n_ord)
    /\ n_ord' = n_ord + 1
    /\ pc' = IF n_ord' = n THEN "dismiss" ELSE "feed"
    /\ UNCHANGED <<n, n_workers, pool, out_queue, dones, results, joined,
                   calls, ret>>

(* Mutant of FeedDone: in_queue is a LifoQueue for it.                     *)
FeedDoneFirst ==
    /\ pc = "dismiss"
    /\ in_queue' = <<Done>> \o in_queue
    /\ dones' = dones + 1
    /\ pc' = IF dones' = n_workers THEN "collect" ELSE "dismiss"
    /\ UNCHANGED <<n, n_workers, pool, out_queue, n_ord, results, joined,
                   calls, ret>>

(* Mutant of FeedDone: one "done" for the whole pool.                      *)
FeedDoneOnce ==
    /\ pc = "dismiss"
    /\ in_queue' = Append(in_queue, Done)
    /\ dones' = dones + 1
    /\ pc' = "collect"
    /\ UNCHANGED <<n, n_workers, pool, out_queue, n_ord, results, joined,
                   calls, ret>>

FeedDone ==
    /\ pc = "dismiss"
    /\ in_queue' = Append(in_queue, Done)
    /\ dones' = dones + 1
    /\ pc' = IF dones' = n_workers THEN "collect" ELSE "dismiss"
    /\ UNCHANGED <<n, n_workers, pool, out_queue, n_ord, results, joined,
                   calls, ret>>

CollectResult ==
    /\ pc = "collect"
    /\ out_queue # <<>>
    /\ results' = Append(results, Head(out_queue))
    /\ out_queue' = Tail(out_queue)
    /\ pc' = IF Len(results') = n THEN "join" ELSE "collect"
    /\ UNCHANGED <<n, n_workers, pool, in_queue, n_ord, dones, joined, calls,
                   ret>>

JoinWorker ==
    /\ pc = "join"
    /\ pool[joined + 1] = Gone
    /\ joined' = joined + 1
    /\ pc' = IF joined' = n_workers THEN "sort" ELSE "join"
    /\ UNCHANGED <<n, n_workers, pool, in_queue, out_queue, n_ord, dones,
                   results, calls, ret>>

(* Mutant of Reordered: the results in the order they arrived.             *)
AsArrived(rs) == [i \in 1..Len(rs) |-> rs[i].res]

(* [r[1] for r in sorted(results)]: place i of the sorted list goes to the *)
(* pair with i - 1 smaller task numbers.                                   *)
Reordered(rs) ==
    LET Smaller(j) == {k \in 1..Len(rs) : rs[k].ord < rs[j].ord}
        At(i) == CHOOSE j \in 1..Len(rs) : Cardinality(Smaller(j)) = i - 1
    IN  [i \in 1..Len(rs) |-> rs[At(i)].res]

Return ==
    /\ pc = "sort"
    /\ ret' = Reordered(results)
    /\ pc' = "returned"
    /\ UNCHANGED <<n, n_workers, pool, in_queue, out_queue, n_ord, dones,
                   results, joined, calls>>

Caller ==
    \/ RunInline
    \/ ChoosePoolSize
    \/ SpawnWorker
    \/ FeedTask
    \/ FeedDone
    \/ CollectResult
    \/ JoinWorker
    \/ Return

-----------------------------------------------------------------------------
(* Mutant of GetTask: the task is read but stays in the queue.             *)
PeekTask(w) ==
    /\ pool[w] = Idle
    /\ in_queue # <<>>
    /\ pool' = [pool EXCEPT ![w] =
                   IF Head(in_queue) = Done THEN Gone ELSE Busy(Head(in_queue))]
    /\ in_queue' = IF Head(in_queue) = Done THEN Tail(in_queue) ELSE in_queue
    /\ UNCHANGED <<pc, n, n_workers, out_queue, n_ord, dones, results, joined,
                   calls, ret>>

(* Worker.run: `task = self.in_queue.get()'.                               *)
GetTask(w) ==
    /\ pool[w] = Idle
    /\ in_queue # <<>>
    /\ pool' = [pool EXCEPT ![w] =
                   IF Head(in_queue) = Done THEN Gone ELSE Busy(Head(in_queue))]
    /\ in_queue' = Tail(in_queue)
    /\ UNCHANGED <<pc, n, n_workers, out_queue, n_ord, dones, results, joined,
                   calls, ret>>

(* The run of the task's function, its Exception caught, and the put of    *)
(* what it ended with.                                                     *)
FinishTask(w) ==
    /\ pool[w].state = "busy"
    /\ \E r \in Results :
        /\ calls' = [calls EXCEPT ![pool[w].ord] = Append(@, r)]
        /\ out_queue' = Append(out_queue, [ord |-> pool[w].ord, res |-> r])
    /\ pool' = [pool EXCEPT ![w] = Idle]
    /\ UNCHANGED <<pc, n, n_workers, in_queue, n_ord, dones, results, joined,
                   ret>>

Worker == \E w \in 1..Len(pool) : GetTask(w) \/ FinishTask(w)

(* The call has returned; nothing is left to do.                           *)
Finished == pc = "returned" /\ UNCHANGED vars

Next == Caller \/ Worker \/ Finished

(* Python schedules every runnable thread: a thread that can go on does.   *)
Fairness == WF_vars(Caller) /\ WF_vars(Worker)

Spec == Init /\ [][Next]_vars

FairSpec == Spec /\ Fairness

-----------------------------------------------------------------------------
Pairs == [ord : Ords, res : Results]

PoolStates == {Idle, Gone} \cup {Busy(o) : o \in Ords}

(* Type invariant: the ranges of the variables of concurrentized and       *)
(* Worker.run, with the sizes the loops bound.                             *)
TypeOK ==
    /\ pc \in {"start", "spawn", "feed", "dismiss", "collect", "join", "sort",
               "returned"}
    /\ n \in Nat
    /\ n_workers \in Nat
    /\ pool \in Seq(PoolStates)
    /\ in_queue \in Seq(Ords \cup {Done})
    /\ out_queue \in Seq(Pairs)
    /\ n_ord \in 0..n
    /\ dones \in 0..n_workers
    /\ results \in Seq(Pairs)
    /\ joined \in 0..n_workers
    /\ calls \in [Ords -> Seq(Results)]
    /\ ret \in Seq(Results)

(* The places task o is in: its copies in the first queue, the workers     *)
(* running it, and its pairs in the second queue and in results.           *)
Places(o) ==
      {<<"in_queue", i>> : i \in {i \in 1..Len(in_queue) : in_queue[i] = o}}
        \cup {<<"worker", w>> : w \in {w \in 1..Len(pool) : pool[w].ord = o}}
        \cup {<<"out_queue", i>> : i \in {i \in 1..Len(out_queue) : out_queue[i].ord = o}}
        \cup {<<"results", i>> : i \in {i \in 1..Len(results) : results[i].ord = o}}

(* A task that was fed is in exactly one place: no interleaving of the     *)
(* calling thread and the workers loses a task, runs it twice or answers   *)
(* it twice (the queues and the loops of concurrentized and Worker.run).   *)
NoTaskLostOrDoubled ==
    \A o \in 0..(n_ord - 1) : Cardinality(Places(o)) = 1

(* A worker ends only when no task waits: a "done" that overtook a task,   *)
(* or one too many, would leave the task to nobody (parallel.py:131-137).  *)
NoTaskLeftByWorkers ==
    (\E w \in 1..Len(pool) : pool[w] = Gone) =>
        \A i \in 1..Len(in_queue) : in_queue[i] = Done

(* When the pooled call returns, position i of the list it hands back is   *)
(* what the one run for element i ended with, and no thread and no message *)
(* outlives the call (parallel.py:139-151).                                *)
ReturnsInOrder ==
    pc = "returned" /\ n \notin {0, 1} =>
        /\ Len(ret) = n
        /\ \A o \in Ords : calls[o] = <<ret[o + 1]>>
        /\ \A w \in 1..Len(pool) : pool[w] = Gone
        /\ in_queue = <<>>
        /\ out_queue = <<>>

(* Every call returns, whatever its tasks end with: the calling thread     *)
(* waits for exactly as many results and threads as there will be.         *)
EveryCallReturns == <>(pc = "returned")

(* The pool implements the abstract map.                                   *)
Map == INSTANCE ConcurrentMap
ImplementsMap == Map!MapSpec
=============================================================================
