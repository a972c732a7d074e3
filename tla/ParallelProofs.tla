--------------------------- MODULE ParallelProofs ---------------------------
(***************************************************************************)
(* Proofs about Parallel, for every set of list lengths, of pool sizes and *)
(* of results.                                                             *)
(*                                                                         *)
(* The argument: what was put in in_queue is the stream 0, ..., n - 1,     *)
(* Done, Done, ... and the workers have taken its first Taken elements.    *)
(* Each task below Taken is being run by one worker and has no run in its  *)
(* history, or has one run and one answer.  An answer moves from out_queue *)
(* to the end of results, so that results followed by out_queue only ever  *)
(* grows at its end.                                                       *)
(***************************************************************************)
EXTENDS Parallel, Functions, FiniteSetTheorems, TLAPS

(* How many elements the workers took from in_queue.                       *)
Taken == n_ord + dones - Len(in_queue)

(* The k-th element ever put in in_queue.                                  *)
Fed(k) == IF k <= n THEN k - 1 ELSE Done

(* results followed by out_queue.                                          *)
Answers == Len(results) + Len(out_queue)
Answer(i) == IF i <= Len(results) THEN results[i]
                                  ELSE out_queue[i - Len(results)]

GoneWorkers == {w \in 1..Len(pool) : pool[w] = Gone}

Untouched ==
    /\ pool = <<>> /\ in_queue = <<>> /\ out_queue = <<>> /\ results = <<>>
    /\ n_ord = 0 /\ dones = 0 /\ joined = 0

(* Where the loops of the calling thread are, at each of its lines.        *)
Control ==
    /\ pc = "start" => Untouched /\ calls = [o \in Ords |-> <<>>]
    /\ pc = "returned" /\ n < 2 => Untouched
    /\ pc \notin {"start", "returned"} => n >= 2
    /\ pc # "returned" => ret = <<>>
    /\ n >= 2 /\ pc # "start" =>
        /\ n_workers >= 1
        /\ pc = "spawn" => Len(pool) < n_workers
        /\ pc # "spawn" => Len(pool) = n_workers
        /\ pc = "spawn" => n_ord = 0
        /\ pc = "feed" => n_ord < n
        /\ pc \notin {"spawn", "feed"} => n_ord = n
        /\ pc \in {"spawn", "feed"} => dones = 0
        /\ pc = "dismiss" => dones < n_workers
        /\ pc \in {"collect", "join", "sort", "returned"} => dones = n_workers
        /\ pc \in {"spawn", "feed", "dismiss"} => results = <<>>
        /\ pc = "collect" => Len(results) < n
        /\ pc \in {"join", "sort", "returned"} => Len(results) = n
        /\ pc \in {"spawn", "feed", "dismiss", "collect"} => joined = 0
        /\ pc = "join" => joined < n_workers
        /\ pc \in {"sort", "returned"} => joined = n_workers
        /\ pc = "returned" => ret = Reordered(results)

Joined == joined <= Len(pool) /\ \A w \in 1..joined : pool[w] = Gone

QueueInOrder ==
    /\ Len(in_queue) <= n_ord + dones
    /\ dones > 0 => n_ord = n
    /\ \A i \in 1..Len(in_queue) : in_queue[i] = Fed(Taken + i)

BusyOnce ==
    /\ \A w \in 1..Len(pool) : pool[w].state = "busy" =>
        /\ pool[w].ord < Taken
        /\ pool[w].ord \in Ords
        /\ calls[pool[w].ord] = <<>>
    /\ \A w, v \in 1..Len(pool) :
        pool[w].state = "busy" /\ pool[v].state = "busy" /\ pool[w].ord = pool[v].ord
            => w = v

NotYetRun == n >= 2 => \A o \in Ords : o >= Taken => calls[o] = <<>>

AnsweredOnce ==
    /\ \A i \in 1..Answers :
        /\ Answer(i).ord < Taken
        /\ calls[Answer(i).ord] = <<Answer(i).res>>
    /\ \A i, j \in 1..Answers : Answer(i).ord = Answer(j).ord => i = j

NoneLost ==
    \A o \in Ords : o < Taken =>
        \/ \E w \in 1..Len(pool) : pool[w] = Busy(o)
        \/ \E i \in 1..Answers : Answer(i).ord = o

GoneCounted ==
    Cardinality(GoneWorkers) = IF Taken > n THEN Taken - n ELSE 0

(* The inductive invariant.                                                *)
Inv ==
    /\ TypeOK
    /\ Control
    /\ Joined
    /\ QueueInOrder
    /\ BusyOnce
    /\ NotYetRun
    /\ AnsweredOnce
    /\ NoneLost
    /\ GoneCounted

-----------------------------------------------------------------------------
LEMMA InitInv == Init => Inv
<1> SUFFICES ASSUME Init PROVE Inv
  OBVIOUS
<1> USE ParallelAssumption DEF Init
<1>1. TypeOK
  BY DEF TypeOK, Ords
<1>2. Control
  BY DEF Control, Untouched
<1>3. Joined
  BY DEF Joined
<1>4. QueueInOrder
  BY DEF QueueInOrder
<1>5. BusyOnce
  BY DEF BusyOnce
<1>6. NotYetRun
  BY DEF NotYetRun
<1>7. AnsweredOnce
  BY DEF AnsweredOnce, Answers
<1>8. NoneLost
  BY DEF NoneLost, Taken, Ords
<1>9. GoneCounted
  <2>1. GoneWorkers = {}
    BY DEF GoneWorkers
  <2>2. Taken = 0
    <3>1. Len(in_queue) = 0 /\ n_ord = 0 /\ dones = 0
      BY <1>1 DEF TypeOK
    <3> QED
      BY ONLY <3>1 DEF Taken
  <2> QED
    BY <1>1, <2>1, <2>2, FS_EmptySet DEF GoneCounted, TypeOK
<1> QED
  BY <1>1, <1>2, <1>3, <1>4, <1>5, <1>6, <1>7, <1>8, <1>9 DEF Inv

(* Steps of the calling thread that leave the queues, the threads and the  *)
(* history alone.                                                          *)
LEMMA RunInlineInv == Inv /\ RunInline => Inv'
<1> SUFFICES ASSUME Inv, RunInline PROVE Inv'
  OBVIOUS
<1> USE DEF RunInline
<1>0. /\ TypeOK /\ Untouched /\ n < 2 /\ n \in Nat /\ GoneCounted /\ n_workers \in Nat
      /\ UNCHANGED <<n, n_workers, pool, in_queue, out_queue, n_ord, dones, results, joined>>
  BY DEF Inv, TypeOK, Control
<1>1. TypeOK'
  BY <1>0 DEF TypeOK, Ords, Pairs, PoolStates
<1>2. Control' /\ Joined' /\ QueueInOrder' /\ BusyOnce' /\ NotYetRun'
  BY <1>0 DEF Control, Untouched, Joined, QueueInOrder, BusyOnce, NotYetRun
<1>3. AnsweredOnce'
  BY <1>0 DEF AnsweredOnce, Answers, Untouched
<1>4. NoneLost'
  BY <1>0 DEF NoneLost, Taken, Ords, Untouched
<1>5. GoneCounted'
  BY <1>0 DEF GoneCounted, GoneWorkers, Taken
<1> QED
  BY <1>1, <1>2, <1>3, <1>4, <1>5 DEF Inv

LEMMA ChoosePoolSizeInv == Inv /\ ChoosePoolSize => Inv'
<1> SUFFICES ASSUME Inv, ChoosePoolSize PROVE Inv'
  OBVIOUS
<1> USE DEF ChoosePoolSize
<1>0. /\ TypeOK /\ Untouched /\ n >= 2 /\ GoneCounted /\ ret = <<>>
      /\ calls = [o \in Ords |-> <<>>]
      /\ n_workers' \in Nat \ {0}
      /\ UNCHANGED <<n, pool, in_queue, out_queue, n_ord, dones, results, joined, calls, ret>>
  BY ParallelAssumption DEF Inv, TypeOK, Control
<1>1. TypeOK'
  BY <1>0 DEF TypeOK, Untouched, Ords, Pairs, PoolStates
<1>2. Control'
  BY <1>0 DEF Control, Untouched, TypeOK
<1>3. Joined' /\ QueueInOrder' /\ BusyOnce' 
  BY <1>0 DEF Untouched, Joined, QueueInOrder, BusyOnce
<1>4. NotYetRun'
  BY <1>0 DEF NotYetRun, Ords
<1>5. AnsweredOnce'
  BY <1>0 DEF AnsweredOnce, Answers, Untouched
<1>6. NoneLost'
  BY <1>0 DEF NoneLost, Taken, Ords, Untouched
<1>7. GoneCounted'
  BY <1>0 DEF GoneCounted, GoneWorkers, Taken
<1> QED
  BY <1>1, <1>2, <1>3, <1>4, <1>5, <1>6, <1>7 DEF Inv

LEMMA SpawnWorkerInv == Inv /\ SpawnWorker => Inv'
<1> SUFFICES ASSUME Inv, SpawnWorker PROVE Inv'
  OBVIOUS
<1> USE DEF SpawnWorker
<1>0. /\ n >= 2 /\ n \in Nat /\ n_workers \in Nat /\ joined = 0
      /\ pool \in Seq(PoolStates) /\ Len(pool) < n_workers
      /\ UNCHANGED <<n, n_workers, in_queue, out_queue, n_ord, dones, results, joined, calls, ret>>
  BY DEF Inv, TypeOK, Control
<1>1. /\ pool' = Append(pool, Idle) /\ Idle \in PoolStates /\ pool' \in Seq(PoolStates)
      /\ Len(pool') = Len(pool) + 1
      /\ \A w \in 1..Len(pool) : pool'[w] = pool[w]
      /\ pool'[Len(pool) + 1] = Idle
  BY <1>0 DEF PoolStates
<1>2. TypeOK'
  BY <1>0, <1>1 DEF Inv, TypeOK, Ords, Pairs, PoolStates
<1>3. Control'
  BY <1>0, <1>1 DEF Inv, Control
<1>4. Joined'
  BY <1>0, <1>1 DEF Joined
<1>5. QueueInOrder'
  BY <1>0 DEF Inv, QueueInOrder, Taken, Fed
<1>6. BusyOnce'
  BY <1>0, <1>1 DEF Inv, BusyOnce, Taken, Ords, Idle
<1>7. NotYetRun'
  BY <1>0 DEF Inv, NotYetRun, Taken, Ords
<1>8. AnsweredOnce'
  BY <1>0 DEF Inv, AnsweredOnce, Answers, Answer, Taken
<1>9. NoneLost'
  BY <1>0, <1>1 DEF Inv, NoneLost, Answers, Answer, Taken, Ords
<1>10. GoneCounted'
  <2>1. GoneWorkers' = GoneWorkers
    BY <1>0, <1>1 DEF GoneWorkers, Idle, Gone
  <2> QED
    BY <2>1, <1>0 DEF Inv, GoneCounted, Taken
<1> QED
  BY <1>2, <1>3, <1>4, <1>5, <1>6, <1>7, <1>8, <1>9, <1>10 DEF Inv

LEMMA FeedTaskInv == Inv /\ FeedTask => Inv'
<1> SUFFICES ASSUME Inv, FeedTask PROVE Inv'
  OBVIOUS
<1> USE DEF FeedTask
<1>0. /\ n >= 2 /\ n \in Nat /\ n_workers \in Nat /\ n_ord \in Nat /\ n_ord < n
      /\ dones = 0 /\ in_queue \in Seq(Ords \cup {Done})
      /\ Len(in_queue) \in Nat /\ Len(in_queue) <= n_ord
      /\ \A i \in 1..Len(in_queue) : in_queue[i] = Fed(Taken + i)
      /\ UNCHANGED <<n, n_workers, pool, out_queue, dones, results, joined, calls, ret>>
  BY DEF Inv, TypeOK, Control, QueueInOrder
<1>1. /\ in_queue' = Append(in_queue, n_ord) /\ n_ord' = n_ord + 1
      /\ in_queue' \in Seq(Ords \cup {Done})
      /\ Len(in_queue') = Len(in_queue) + 1
      /\ \A i \in 1..Len(in_queue) : in_queue'[i] = in_queue[i]
      /\ in_queue'[Len(in_queue) + 1] = n_ord
  BY <1>0 DEF Ords
<1>2. Taken \in Nat /\ Taken' = Taken /\ Taken + Len(in_queue) = n_ord
  BY <1>0, <1>1 DEF Taken
<1>3. TypeOK'
  BY <1>0, <1>1 DEF Inv, TypeOK, Ords, Pairs, PoolStates
<1>4. Control'
  BY <1>0, <1>1 DEF Inv, Control
<1>5. Joined'
  BY <1>0 DEF Inv, Joined
<1>6. QueueInOrder'
  <2>1. ASSUME NEW i \in 1..(Len(in_queue) + 1)
        PROVE  in_queue'[i] = Fed(Taken + i)
    <3>1. CASE i = Len(in_queue) + 1
      BY <1>0, <1>1, <1>2, <3>1 DEF Fed
    <3>2. CASE i # Len(in_queue) + 1
      BY <1>0, <1>1, <3>2
    <3> QED
      BY <3>1, <3>2
  <2> QED
    BY <2>1, <1>0, <1>1, <1>2 DEF QueueInOrder, Fed
<1>7. BusyOnce' /\ NotYetRun'
  BY <1>0, <1>2 DEF Inv, BusyOnce, NotYetRun, Ords
<1>8. AnsweredOnce' /\ NoneLost'
  BY <1>0, <1>2 DEF Inv, AnsweredOnce, NoneLost, Answers, Answer, Ords
<1>9. GoneCounted'
  BY <1>0, <1>2 DEF Inv, GoneCounted, GoneWorkers
<1> QED
  BY <1>3, <1>4, <1>5, <1>6, <1>7, <1>8, <1>9 DEF Inv

LEMMA FeedDoneInv == Inv /\ FeedDone => Inv'
<1> SUFFICES ASSUME Inv, FeedDone PROVE Inv'
  OBVIOUS
<1> USE DEF FeedDone
<1>0. /\ n >= 2 /\ n \in Nat /\ n_workers \in Nat /\ n_ord = n
      /\ dones \in Nat /\ dones < n_workers /\ in_queue \in Seq(Ords \cup {Done})
      /\ Len(in_queue) \in Nat /\ Len(in_queue) <= n_ord + dones
      /\ \A i \in 1..Len(in_queue) : in_queue[i] = Fed(Taken + i)
      /\ UNCHANGED <<n, n_workers, pool, out_queue, n_ord, results, joined, calls, ret>>
  BY DEF Inv, TypeOK, Control, QueueInOrder
<1>1. /\ in_queue' = Append(in_queue, Done) /\ dones' = dones + 1
      /\ in_queue' \in Seq(Ords \cup {Done})
      /\ Len(in_queue') = Len(in_queue) + 1
      /\ \A i \in 1..Len(in_queue) : in_queue'[i] = in_queue[i]
      /\ in_queue'[Len(in_queue) + 1] = Done
  BY <1>0
<1>2. Taken \in Nat /\ Taken' = Taken /\ Taken + Len(in_queue) = n + dones
  BY <1>0, <1>1 DEF Taken
<1>3. TypeOK'
  BY <1>0, <1>1 DEF Inv, TypeOK, Ords, Pairs, PoolStates
<1>4. Control'
  BY <1>0, <1>1 DEF Inv, Control
<1>5. Joined'
  BY <1>0 DEF Inv, Joined
<1>6. QueueInOrder'
  <2>1. ASSUME NEW i \in 1..(Len(in_queue) + 1)
        PROVE  in_queue'[i] = Fed(Taken + i)
    <3>1. CASE i = Len(in_queue) + 1
      BY <1>0, <1>1, <1>2, <3>1 DEF Fed
    <3>2. CASE i # Len(in_queue) + 1
      BY <1>0, <1>1, <3>2
    <3> QED
      BY <3>1, <3>2
  <2> QED
    BY <2>1, <1>0, <1>1, <1>2 DEF QueueInOrder, Fed
<1>7. BusyOnce' /\ NotYetRun'
  BY <1>0, <1>2 DEF Inv, BusyOnce, NotYetRun, Ords
<1>8. AnsweredOnce' /\ NoneLost'
  BY <1>0, <1>2 DEF Inv, AnsweredOnce, NoneLost, Answers, Answer, Ords
<1>9. GoneCounted'
  BY <1>0, <1>2 DEF Inv, GoneCounted, GoneWorkers
<1> QED
  BY <1>3, <1>4, <1>5, <1>6, <1>7, <1>8, <1>9 DEF Inv

LEMMA CollectResultInv == Inv /\ CollectResult => Inv'
<1> SUFFICES ASSUME Inv, CollectResult PROVE Inv'
  OBVIOUS
<1> USE DEF CollectResult
<1>0. /\ n >= 2 /\ n \in Nat /\ n_workers \in Nat
      /\ results \in Seq(Pairs) /\ out_queue \in Seq(Pairs) /\ out_queue # <<>>
      /\ Len(results) \in Nat /\ Len(results) < n
      /\ Len(out_queue) \in Nat \ {0}
      /\ UNCHANGED <<n, n_workers, pool, in_queue, n_ord, dones, joined, calls, ret>>
  BY DEF Inv, TypeOK, Control
<1>1. /\ results' \in Seq(Pairs) /\ out_queue' \in Seq(Pairs)
      /\ Len(results') = Len(results) + 1 /\ Len(out_queue') = Len(out_queue) - 1
      /\ \A i \in 1..Len(results) : results'[i] = results[i]
      /\ results'[Len(results) + 1] = out_queue[1]
      /\ \A i \in 1..(Len(out_queue) - 1) : out_queue'[i] = out_queue[i + 1]
  BY <1>0
<1>2. Answers \in Nat /\ Answers' = Answers
  BY <1>0, <1>1 DEF Answers
<1>3. \A i \in 1..Answers : Answer(i)' = Answer(i)
  BY <1>0, <1>1 DEF Answer, Answers
<1>4. Taken' = Taken
  BY <1>0 DEF Taken
<1>5. TypeOK'
  BY <1>0, <1>1 DEF Inv, TypeOK, Ords, Pairs, PoolStates
<1>6. Control'
  BY <1>0, <1>1 DEF Inv, Control
<1>7. Joined' /\ QueueInOrder' /\ BusyOnce' /\ NotYetRun'
  BY <1>0, <1>4 DEF Inv, Joined, QueueInOrder, Fed, BusyOnce, NotYetRun, Ords
<1>8. AnsweredOnce'
  BY <1>0, <1>2, <1>3, <1>4 DEF Inv, AnsweredOnce
<1>9. NoneLost'
  BY <1>0, <1>2, <1>3, <1>4 DEF Inv, NoneLost, Ords
<1>10. GoneCounted'
  BY <1>0, <1>4 DEF Inv, GoneCounted, GoneWorkers
<1> QED
  BY <1>5, <1>6, <1>7, <1>8, <1>9, <1>10 DEF Inv

LEMMA JoinWorkerInv == Inv /\ JoinWorker => Inv'
<1> SUFFICES ASSUME Inv, JoinWorker PROVE Inv'
  OBVIOUS
<1> USE DEF JoinWorker
<1>0. /\ n >= 2 /\ n \in Nat /\ n_workers \in Nat /\ joined \in Nat
      /\ joined < n_workers /\ Len(pool) = n_workers /\ pool[joined + 1] = Gone
      /\ joined' = joined + 1
      /\ UNCHANGED <<n, n_workers, pool, in_queue, out_queue, n_ord, dones, results, calls, ret>>
  BY DEF Inv, TypeOK, Control
<1>1. Taken' = Taken
  BY <1>0 DEF Taken
<1>2. TypeOK'
  BY <1>0 DEF Inv, TypeOK, Ords, Pairs, PoolStates
<1>3. Control'
  BY <1>0 DEF Inv, Control
<1>4. Joined'
  BY <1>0 DEF Inv, Joined
<1>5. QueueInOrder' /\ BusyOnce' /\ NotYetRun'
  BY <1>0, <1>1 DEF Inv, QueueInOrder, Fed, BusyOnce, NotYetRun, Ords
<1>6. AnsweredOnce' /\ NoneLost'
  BY <1>0, <1>1 DEF Inv, AnsweredOnce, NoneLost, Answers, Answer, Ords
<1>7. GoneCounted'
  BY <1>0, <1>1 DEF Inv, GoneCounted, GoneWorkers
<1> QED
  BY <1>2, <1>3, <1>4, <1>5, <1>6, <1>7 DEF Inv

-----------------------------------------------------------------------------
(* m pairs with different numbers below m: each number is there.           *)
LEMMA EveryOrd ==
  ASSUME NEW m \in Nat, NEW rs,
         \A i \in 1..m : rs[i].ord \in 0..(m - 1),
         \A i, j \in 1..m : rs[i].ord = rs[j].ord => i = j
  PROVE  \A o \in 0..(m - 1) : \E j \in 1..m : rs[j].ord = o
<1> DEFINE f == [i \in 1..m |-> rs[i].ord]
<1>1. f \in Injection(1..m, 0..(m - 1))
  BY DEF Injection, IsInjective
<1>2. /\ IsFiniteSet(1..m) /\ Cardinality(1..m) = m
      /\ IsFiniteSet(0..(m - 1)) /\ Cardinality(0..(m - 1)) = m
  <2>1. m - 1 \in Int /\ m \in Int
    OBVIOUS
  <2> QED
    BY <2>1, FS_Interval
<1>3. f \in Surjection(1..m, 0..(m - 1))
  <2> HIDE DEF f
  <2> QED
    BY <1>1, <1>2, FS_Injection
<1> QED
  BY <1>3 DEF Surjection

(* Sorting m pairs numbered 0 to m - 1, each number once, puts the pair    *)
(* numbered o at place o + 1.                                              *)
LEMMA SortedByOrd ==
  ASSUME NEW m \in Nat, NEW rs, Len(rs) = m,
         \A i \in 1..m : rs[i].ord \in 0..(m - 1),
         \A i, j \in 1..m : rs[i].ord = rs[j].ord => i = j
  PROVE  /\ Reordered(rs) = [i \in 1..m |-> Reordered(rs)[i]]
         /\ \A j \in 1..m : Reordered(rs)[rs[j].ord + 1] = rs[j].res
<1> DEFINE Smaller(j) == {k \in 1..Len(rs) : rs[k].ord < rs[j].ord}
           At(i) == CHOOSE j \in 1..Len(rs) : Cardinality(Smaller(j)) = i - 1
<1>1. \A i \in 1..m : rs[i].ord \in 0..(m - 1)
  OBVIOUS
<1>2. \A o \in 0..(m - 1) : \E j \in 1..m : rs[j].ord = o
  BY EveryOrd
<1>3. ASSUME NEW j \in 1..m
      PROVE  Cardinality(Smaller(j)) = rs[j].ord
  <2> DEFINE c == rs[j].ord
             g == [k \in Smaller(j) |-> rs[k].ord]
  <2>1. c \in 0..(m - 1)
    BY <1>1
  <2>2. \A k \in Smaller(j) : k \in 1..m /\ rs[k].ord \in 0..(c - 1)
    BY <1>1, <2>1
  <2>3. \A o \in 0..(c - 1) : \E k \in Smaller(j) : rs[k].ord = o
    <3>1. SUFFICES ASSUME NEW o \in 0..(c - 1)
                   PROVE  \E k \in Smaller(j) : rs[k].ord = o
      OBVIOUS
    <3>2. o \in 0..(m - 1)
      <4> HIDE DEF c
      <4> QED
        BY <2>1
    <3>3. PICK k \in 1..m : rs[k].ord = o
      BY <1>2, <3>2
    <3>4. k \in Smaller(j)
      BY <2>1, <3>3
    <3> QED
      BY <3>3, <3>4
  <2> HIDE DEF Smaller, c
  <2>4. g \in Injection(Smaller(j), 0..(c - 1))
    BY <2>2 DEF Injection, IsInjective
  <2>5. g \in Surjection(Smaller(j), 0..(c - 1))
    BY <2>2, <2>3 DEF Surjection
  <2>6. IsFiniteSet(0..(c - 1)) /\ Cardinality(0..(c - 1)) = c
    <3>1. 0 \in Int /\ c - 1 \in Int
      BY <2>1
    <3>2. /\ IsFiniteSet(0..(c - 1))
          /\ Cardinality(0..(c - 1)) = IF 0 > c - 1 THEN 0 ELSE c - 1 - 0 + 1
      BY <3>1, FS_Interval
    <3> QED
      BY <2>1, <3>2
  <2> HIDE DEF g
  <2>7. Cardinality(Smaller(j)) = Cardinality(0..(c - 1))
    BY <2>4, <2>5, <2>6, FS_Injection
  <2> QED
    BY <2>6, <2>7 DEF c
<1>4. ASSUME NEW i \in 1..m
      PROVE  At(i) \in 1..m /\ rs[At(i)].ord = i - 1
  <2> HIDE DEF Smaller
  <2>1. PICK j \in 1..m : rs[j].ord = i - 1
    BY <1>2
  <2>2. \E k \in 1..Len(rs) : Cardinality(Smaller(k)) = i - 1
    BY <2>1, <1>3
  <2>3. At(i) \in 1..Len(rs) /\ Cardinality(Smaller(At(i))) = i - 1
    BY <2>2
  <2> HIDE DEF At
  <2> QED
    BY <2>3, <1>3
<1>5. Reordered(rs) = [i \in 1..m |-> rs[At(i)].res]
  BY DEF Reordered
<1> HIDE DEF At, Smaller
<1>6. Reordered(rs) = [i \in 1..m |-> Reordered(rs)[i]]
  BY <1>5
<1>7. ASSUME NEW j \in 1..m
      PROVE  Reordered(rs)[rs[j].ord + 1] = rs[j].res
  <2>1. rs[j].ord + 1 \in 1..m
    BY <1>1
  <2>2. PICK i \in 1..m : i = rs[j].ord + 1
    BY <2>1
  <2>3. At(i) \in 1..m /\ rs[At(i)].ord = i - 1
    BY <1>4
  <2>4. At(i) = j
    BY <1>1, <2>2, <2>3
  <2> QED
    BY <1>5, <2>2, <2>4
<1> HIDE DEF Reordered
<1> QED
  BY <1>2, <1>6, <1>7

(* What the invariant says once all results are in: the list of results    *)
(* holds one answer per task.                                              *)
LEMMA AllAnswered ==
  ASSUME Inv, n >= 2, Len(results) = n
  PROVE  /\ n \in Nat /\ results \in Seq([ord : 0..(n - 1), res : Results])
         /\ \A i \in 1..n : calls[results[i].ord] = <<results[i].res>>
         /\ \A i, j \in 1..n : results[i].ord = results[j].ord => i = j
<1>1. n \in Nat /\ results \in Seq(Pairs) /\ out_queue \in Seq(Pairs)
  BY DEF Inv, TypeOK
<1>2. Answers \in Nat /\ n <= Answers /\ \A i \in 1..n : Answer(i) = results[i]
  BY <1>1 DEF Answers, Answer
<1>3. AnsweredOnce
  BY DEF Inv
<1>4. results \in Seq([ord : 0..(n - 1), res : Results])
  BY <1>1 DEF Pairs, Ords
<1>5. \A i \in 1..n : calls[results[i].ord] = <<results[i].res>>
  <2>1. SUFFICES ASSUME NEW i \in 1..n
                 PROVE  calls[results[i].ord] = <<results[i].res>>
    OBVIOUS
  <2>2. i \in 1..Answers /\ Answer(i) = results[i]
    BY <1>1, <1>2
  <2>3. calls[Answer(i).ord] = <<Answer(i).res>>
    BY <2>2, <1>3 DEF AnsweredOnce
  <2> QED
    BY <2>2, <2>3
<1>6. \A i, j \in 1..n : results[i].ord = results[j].ord => i = j
  BY <1>1, <1>2, <1>3 DEF AnsweredOnce
<1> QED
  BY <1>1, <1>4, <1>5, <1>6

(* Sorting the results therefore yields one result per task, in order.     *)
LEMMA ResultsInOrder ==
  ASSUME Inv, n >= 2, Len(results) = n
  PROVE  /\ Reordered(results) \in Seq(Results)
         /\ Len(Reordered(results)) = n
         /\ \A o \in 0..(n - 1) : \E j \in 1..n : results[j].ord = o
         /\ \A o \in 0..(n - 1) : calls[o] = <<Reordered(results)[o + 1]>>
<1>1. /\ n \in Nat /\ results \in Seq([ord : 0..(n - 1), res : Results]) /\ Len(results) = n
      /\ \A i \in 1..n : calls[results[i].ord] = <<results[i].res>>
      /\ \A i, j \in 1..n : results[i].ord = results[j].ord => i = j
  BY AllAnswered
<1>2. \A i \in 1..n : results[i].ord \in 0..(n - 1) /\ results[i].res \in Results
  <2>1. \A i \in 1..n : results[i] \in Pairs
    BY DEF Inv, TypeOK
  <2> QED
    BY <2>1 DEF Pairs, Ords
<1>3. \A i \in 1..n : results[i].ord \in 0..(n - 1)
  BY <1>2
<1>4. \A i, j \in 1..n : results[i].ord = results[j].ord => i = j
  BY <1>1
<1>5. \A o \in 0..(n - 1) : \E j \in 1..n : results[j].ord = o
  BY <1>1, <1>3, <1>4, EveryOrd
<1>6. Reordered(results) = [i \in 1..n |-> Reordered(results)[i]]
  BY <1>1, <1>3, <1>4, SortedByOrd
<1>7. \A j \in 1..n : Reordered(results)[results[j].ord + 1] = results[j].res
  BY <1>1, <1>3, <1>4, SortedByOrd
<1>8. ASSUME NEW o \in 0..(n - 1)
      PROVE  /\ calls[o] = <<Reordered(results)[o + 1]>>
             /\ Reordered(results)[o + 1] \in Results
  <2>1. PICK j \in 1..n : results[j].ord = o
    BY <1>5
  <2>2. calls[o] = <<results[j].res>> /\ results[j].res \in Results
    BY <2>1, <1>1, <1>2
  <2>3. Reordered(results)[o + 1] = results[j].res
    BY ONLY <2>1, <1>7
  <2> QED
    BY ONLY <2>2, <2>3
<1>9. Reordered(results) \in Seq(Results) /\ Len(Reordered(results)) = n
  <2>1. \A i \in 1..n : Reordered(results)[i] \in Results
    <3>1. \A i \in 1..n : i - 1 \in 0..(n - 1) /\ (i - 1) + 1 = i
      BY <1>1
    <3> QED
      BY <3>1, <1>8
  <2>2. Reordered(results) \in [1..n -> Results]
    BY <1>6, <2>1
  <2> QED
    BY <2>2, <1>1
<1> QED
  BY <1>5, <1>8, <1>9

LEMMA ReturnInv == Inv /\ Return => Inv'
<1> SUFFICES ASSUME Inv, Return PROVE Inv'
  OBVIOUS
<1> USE DEF Return
<1>0. /\ n >= 2 /\ n \in Nat /\ Len(results) = n /\ ret' = Reordered(results)
      /\ UNCHANGED <<n, n_workers, pool, in_queue, out_queue, n_ord, dones, results, joined, calls>>
  BY DEF Inv, TypeOK, Control
<1>1. ret' \in Seq(Results)
  BY <1>0, ResultsInOrder
<1>2. Taken' = Taken
  BY <1>0 DEF Taken
<1>3. TypeOK'
  BY <1>0, <1>1 DEF Inv, TypeOK, Ords, Pairs, PoolStates
<1>4. Control'
  BY <1>0 DEF Inv, Control, Reordered
<1>5. Joined' /\ QueueInOrder' /\ BusyOnce' /\ NotYetRun'
  BY <1>0, <1>2 DEF Inv, Joined, QueueInOrder, Fed, BusyOnce, NotYetRun, Ords
<1>6. AnsweredOnce' /\ NoneLost'
  BY <1>0, <1>2 DEF Inv, AnsweredOnce, NoneLost, Answers, Answer, Ords
<1>7. GoneCounted'
  BY <1>0, <1>2 DEF Inv, GoneCounted, GoneWorkers
<1> QED
  BY <1>3, <1>4, <1>5, <1>6, <1>7 DEF Inv

-----------------------------------------------------------------------------
(* Steps of the workers.                                                   *)
LEMMA GetTaskInv == ASSUME NEW w \in 1..Len(pool) PROVE Inv /\ GetTask(w) => Inv'
<1> SUFFICES ASSUME Inv, GetTask(w) PROVE Inv'
  OBVIOUS
<1> USE DEF GetTask
<1>0. /\ pool \in Seq(PoolStates) /\ Len(pool) \in Nat /\ w \in 1..Len(pool)
      /\ pool[w] = Idle
      /\ in_queue \in Seq(Ords \cup {Done}) /\ Len(in_queue) \in Nat \ {0}
      /\ n \in Nat /\ n_ord \in 0..n /\ dones \in Nat /\ n_workers \in Nat
      /\ UNCHANGED <<pc, n, n_workers, out_queue, n_ord, dones, results, joined, calls, ret>>
  BY DEF Inv, TypeOK
<1>1. n >= 2 /\ pc # "start"
  <2>1. pool # <<>>
    BY <1>0
  <2> QED
    BY <2>1, <1>0 DEF Inv, Control, Untouched
<1>2. /\ in_queue' \in Seq(Ords \cup {Done})
      /\ Len(in_queue') = Len(in_queue) - 1
      /\ \A i \in 1..Len(in_queue') : in_queue'[i] = in_queue[i + 1]
      /\ Head(in_queue) = in_queue[1]
  BY <1>0
<1>3. /\ Taken \in Nat /\ Taken' = Taken + 1
      /\ Taken + Len(in_queue) = n_ord + dones
      /\ in_queue[1] = Fed(Taken + 1)
  BY <1>0, <1>2 DEF Inv, QueueInOrder, Taken
<1>4. /\ Len(pool') = Len(pool)
      /\ \A v \in 1..Len(pool) : v # w => pool'[v] = pool[v]
      /\ pool'[w] = IF Taken < n THEN Busy(Taken) ELSE Gone
      /\ DOMAIN pool' = 1..Len(pool)
  BY <1>0, <1>2, <1>3 DEF Fed, Done
<1>5. Taken < n => Taken \in Ords /\ calls[Taken] = <<>>
  BY <1>0, <1>1, <1>3 DEF Inv, NotYetRun, Ords
<1>6. TypeOK'
  <2>1. pool' \in Seq(PoolStates)
    <3>1. pool'[w] \in PoolStates
      BY <1>4, <1>5 DEF PoolStates
    <3> QED
      BY <3>1, <1>0
  <2> QED
    BY <1>0, <1>2, <2>1 DEF Inv, TypeOK, Ords, Pairs, PoolStates
<1>7. Control'
  <2>1. Reordered(results)' = Reordered(results)
    BY <1>0
  <2>2. Control /\ Len(pool)' = Len(pool)
    BY <1>4 DEF Inv
  <2> QED
    BY ONLY <1>0, <1>1, <2>1, <2>2 DEF Control
<1>8. Joined'
  <2>1. \A v \in 1..joined : v # w
    BY <1>0 DEF Inv, Joined, Idle, Gone
  <2> QED
    BY <1>0, <1>4, <2>1 DEF Inv, Joined, TypeOK
<1>9. QueueInOrder'
  <2>1. ASSUME NEW i \in 1..Len(in_queue')
        PROVE  in_queue'[i] = Fed(Taken + 1 + i)
    <3>1. i + 1 \in 1..Len(in_queue) /\ Taken + (i + 1) = Taken + 1 + i
      BY <1>0, <1>2, <1>3
    <3> QED
      BY <3>1, <1>2 DEF Inv, QueueInOrder
  <2> QED
    BY <2>1, <1>0, <1>2, <1>3 DEF Inv, QueueInOrder, Fed
<1>10. BusyOnce'
  BY <1>0, <1>3, <1>4, <1>5 DEF Inv, BusyOnce, Busy, Gone, Ords
<1>11. NotYetRun'
  BY <1>0, <1>3 DEF Inv, NotYetRun, Ords
<1>12. AnsweredOnce'
  <2>1. Answers' = Answers /\ \A i : Answer(i)' = Answer(i)
    BY <1>0 DEF Answers, Answer
  <2>2. \A i \in 1..Answers : Answer(i).ord < Taken => Answer(i).ord < Taken + 1
    <3>1. \A i \in 1..Answers : Answer(i) \in Pairs
      BY DEF Inv, TypeOK, Answers, Answer
    <3> QED
      BY <3>1, <1>0, <1>3 DEF Pairs, Ords
  <2> QED
    BY <2>1, <2>2, <1>0, <1>3 DEF Inv, AnsweredOnce
<1>13. NoneLost'
  <2>1. Answers' = Answers /\ \A i : Answer(i)' = Answer(i)
    BY <1>0 DEF Answers, Answer
  <2>2. SUFFICES ASSUME NEW o \in Ords, o < Taken + 1
                 PROVE  \/ \E v \in 1..Len(pool) : pool'[v] = Busy(o)
                        \/ \E i \in 1..Answers : Answer(i).ord = o
    BY <2>1, <1>0, <1>3, <1>4 DEF NoneLost, Ords, Busy
  <2>3. CASE o = Taken
    BY <2>3, <1>0, <1>4 DEF Ords
  <2>4. CASE o # Taken
    <3>1. o < Taken
      BY <2>2, <2>4, <1>0, <1>3 DEF Ords
    <3>2. \A v \in 1..Len(pool) : pool[v] = Busy(o) => v # w
      BY <1>0 DEF Busy, Idle
    <3> QED
      BY <3>1, <3>2, <1>4 DEF Inv, NoneLost
  <2> QED
    BY <2>3, <2>4
<1>14. GoneCounted'
  <2>1. IsFiniteSet(GoneWorkers)
    <3>1. IsFiniteSet(1..Len(pool))
      BY <1>0, FS_Interval
    <3>2. GoneWorkers \subseteq 1..Len(pool)
      BY DEF GoneWorkers
    <3> QED
      BY <3>1, <3>2, FS_Subset
  <2>2. w \notin GoneWorkers
    BY <1>0 DEF GoneWorkers, Idle, Gone
  <2>3. CASE Taken < n
    <3>1. GoneWorkers' = GoneWorkers
      BY <1>0, <1>4, <2>3 DEF GoneWorkers, Busy, Idle, Gone
    <3> QED
      BY <3>1, <2>3, <1>0, <1>3 DEF Inv, GoneCounted
  <2>4. CASE ~(Taken < n)
    <3>1. GoneWorkers' = GoneWorkers \cup {w}
      BY <1>0, <1>4, <2>4 DEF GoneWorkers
    <3>2. Cardinality(GoneWorkers') = Cardinality(GoneWorkers) + 1
      BY <3>1, <2>1, <2>2, FS_AddElement
    <3> QED
      BY <3>2, <2>4, <1>0, <1>3 DEF Inv, GoneCounted
  <2> QED
    BY <2>3, <2>4
<1> QED
  BY <1>6, <1>7, <1>8, <1>9, <1>10, <1>11, <1>12, <1>13, <1>14 DEF Inv

LEMMA FinishTaskInv == ASSUME NEW w \in 1..Len(pool) PROVE Inv /\ FinishTask(w) => Inv'
<1> SUFFICES ASSUME Inv, FinishTask(w) PROVE Inv'
  OBVIOUS
<1> DEFINE o == pool[w].ord
<1>1. PICK r \in Results :
          /\ calls' = [calls EXCEPT ![o] = Append(@, r)]
          /\ out_queue' = Append(out_queue, [ord |-> o, res |-> r])
  BY DEF FinishTask
<1>2. /\ pool \in Seq(PoolStates) /\ Len(pool) \in Nat /\ pool[w].state = "busy"
      /\ pool' = [pool EXCEPT ![w] = Idle]
      /\ n \in Nat /\ calls \in [Ords -> Seq(Results)]
      /\ out_queue \in Seq(Pairs) /\ results \in Seq(Pairs)
      /\ UNCHANGED <<pc, n, n_workers, in_queue, n_ord, dones, results, joined, ret>>
  BY DEF Inv, TypeOK, FinishTask
<1>3. o \in Ords /\ o < Taken /\ calls[o] = <<>>
  BY <1>2 DEF Inv, BusyOnce
<1>4. n >= 2 /\ pc # "start"
  <2>1. pool # <<>>
    BY <1>2
  <2> QED
    BY <2>1, <1>2 DEF Inv, Control, Untouched
<1>5. /\ Len(pool') = Len(pool) /\ pool' \in Seq(PoolStates)
      /\ \A v \in 1..Len(pool) : v # w => pool'[v] = pool[v]
      /\ pool'[w] = Idle
  BY <1>2 DEF PoolStates
<1> HIDE DEF o
<1>6. /\ calls' \in [Ords -> Seq(Results)]
      /\ calls'[o] = <<r>>
      /\ \A p \in Ords : p # o => calls'[p] = calls[p]
  <2>1. Append(calls[o], r) = <<r>> /\ <<r>> \in Seq(Results)
    BY <1>3
  <2> QED
    BY <2>1, <1>1, <1>2, <1>3
<1>7. /\ [ord |-> o, res |-> r] \in Pairs
      /\ out_queue' \in Seq(Pairs) /\ Len(out_queue') = Len(out_queue) + 1
      /\ \A i \in 1..Len(out_queue) : out_queue'[i] = out_queue[i]
      /\ out_queue'[Len(out_queue) + 1] = [ord |-> o, res |-> r]
  <2>1. [ord |-> o, res |-> r] \in Pairs
    BY <1>3 DEF Pairs
  <2> HIDE DEF Pairs
  <2> QED
    BY <2>1, <1>1, <1>2
<1>8. PICK a \in Nat : a = Answers
  BY <1>2 DEF Answers
<1>9. Answers' = a + 1
  BY <1>2, <1>7, <1>8 DEF Answers
<1>10. \A i \in 1..a : Answer(i)' = Answer(i) /\ Answer(i) \in Pairs
  <2>1. SUFFICES ASSUME NEW i \in 1..a
                 PROVE  Answer(i)' = Answer(i) /\ Answer(i) \in Pairs
    OBVIOUS
  <2> HIDE DEF Pairs
  <2>2. CASE i <= Len(results)
    <3>1. Answer(i) = results[i] /\ Answer(i)' = results[i]
      BY <2>2, <1>2 DEF Answer
    <3> QED
      BY <3>1, <2>2, <1>2
  <2>3. CASE ~(i <= Len(results))
    <3>1. PICK k \in 1..Len(out_queue) : k = i - Len(results)
      <4>1. Len(results) \in Nat /\ Len(out_queue) \in Nat
        BY <1>2
      <4>2. a = Len(results) + Len(out_queue)
        BY <1>8 DEF Answers
      <4>3. i - Len(results) \in 1..Len(out_queue)
        BY <4>1, <4>2, <2>3
      <4> QED
        BY <4>3
    <3>2. Answer(i) = out_queue[k] /\ Answer(i)' = out_queue'[k]
      BY <2>3, <3>1, <1>2 DEF Answer
    <3>3. out_queue'[k] = out_queue[k] /\ out_queue[k] \in Pairs
      BY <1>2, <1>7
    <3> QED
      BY <3>2, <3>3
  <2> QED
    BY <2>2, <2>3
<1>11. Answer(a + 1)' = [ord |-> o, res |-> r]
  BY <1>2, <1>7, <1>8 DEF Answers, Answer
<1>12. Taken' = Taken
  BY <1>2 DEF Taken
<1>13. TypeOK'
  BY <1>2, <1>5, <1>6, <1>7 DEF Inv, TypeOK, Ords, Pairs, PoolStates
<1>14. Control'
  <2>1. Control /\ Len(pool)' = Len(pool) /\ Reordered(results)' = Reordered(results)
    BY <1>2, <1>5 DEF Inv
  <2> QED
    BY ONLY <1>2, <1>4, <2>1 DEF Control
<1>15. Joined'
  <2>1. \A v \in 1..joined : v # w
    BY <1>2 DEF Inv, Joined, Gone
  <2> QED
    BY <1>2, <1>5, <2>1 DEF Inv, Joined, TypeOK
<1>16. QueueInOrder'
  BY <1>2, <1>12 DEF Inv, QueueInOrder, Fed
<1>17. BusyOnce'
  <2>1. \A v \in 1..Len(pool) : pool'[v].state = "busy" => v # w /\ pool'[v] = pool[v]
    BY <1>5 DEF Idle
  <2>2. \A v \in 1..Len(pool) : v # w /\ pool[v].state = "busy" => pool[v].ord # o
    BY <1>2 DEF Inv, BusyOnce, o
  <2> QED
    BY <2>1, <2>2, <1>2, <1>5, <1>6, <1>12 DEF Inv, BusyOnce, Ords
<1>18. NotYetRun'
  <2>1. \A p \in Ords : p >= Taken => p # o
    BY <1>2, <1>3 DEF Inv, TypeOK, Taken, Ords
  <2> QED
    BY <2>1, <1>2, <1>6, <1>12 DEF Inv, NotYetRun, Ords
<1>19. AnsweredOnce'
  <2>1. \A i \in 1..a : Answer(i).ord # o /\ Answer(i).ord \in Ords
    <3>1. \A i \in 1..a : calls[Answer(i).ord] # <<>>
      <4>1. \A i \in 1..a : calls[Answer(i).ord] = <<Answer(i).res>>
        BY <1>8 DEF Inv, AnsweredOnce
      <4>2. \A x : <<x>> # <<>>
        OBVIOUS
      <4> QED
        BY <4>1, <4>2
    <3> QED
      BY <3>1, <1>3, <1>10 DEF Pairs
  <2>2. ASSUME NEW i \in 1..(a + 1)
        PROVE  Answer(i)'.ord < Taken /\ calls'[Answer(i)'.ord] = <<Answer(i)'.res>>
    <3>1. CASE i = a + 1
      BY <3>1, <1>3, <1>6, <1>11
    <3>2. CASE i # a + 1
      <4>1. i \in 1..a
        BY <3>2
      <4> QED
        BY <4>1, <2>1, <1>6, <1>8, <1>10 DEF Inv, AnsweredOnce
    <3> QED
      BY <3>1, <3>2
  <2>3. ASSUME NEW i \in 1..(a + 1), NEW j \in 1..(a + 1),
               Answer(i)'.ord = Answer(j)'.ord
        PROVE  i = j
    <3>0. \A k \in 1..(a + 1) : k = a + 1 \/ k \in 1..a
      OBVIOUS
    <3>1. CASE i \in 1..a /\ j \in 1..a
      BY <3>1, <2>3, <1>8, <1>10 DEF Inv, AnsweredOnce
    <3>2. CASE i = a + 1 /\ j \in 1..a
      BY <3>2, <2>1, <2>3, <1>10, <1>11
    <3>3. CASE i \in 1..a /\ j = a + 1
      BY <3>3, <2>1, <2>3, <1>10, <1>11
    <3> QED
      BY <3>0, <3>1, <3>2, <3>3
  <2> QED
    BY <2>2, <2>3, <1>12, <1>9 DEF AnsweredOnce
<1>20. NoneLost'
  <2>1. SUFFICES ASSUME NEW p \in Ords, p < Taken
                 PROVE  \/ \E v \in 1..Len(pool) : pool'[v] = Busy(p)
                        \/ \E i \in 1..(a + 1) : Answer(i)'.ord = p
    BY <1>2, <1>5, <1>12, <1>9 DEF NoneLost, Ords, Busy
  <2>2. CASE p = o
    <3>1. a + 1 \in 1..(a + 1) /\ Answer(a + 1)'.ord = p
      BY <2>2, <1>11
    <3> QED
      BY <3>1
  <2>3. CASE p # o
    <3>1. \A v \in 1..Len(pool) : pool[v] = Busy(p) => v # w
      BY <2>3 DEF Busy, o
    <3>2. CASE \E v \in 1..Len(pool) : pool[v] = Busy(p)
      BY <3>1, <3>2, <1>5
    <3>3. CASE \E i \in 1..a : Answer(i).ord = p
      BY <3>3, <1>10
    <3> QED
      BY <2>1, <3>2, <3>3, <1>8 DEF Inv, NoneLost
  <2> QED
    BY <2>2, <2>3
<1>21. GoneCounted'
  <2>1. GoneWorkers' = GoneWorkers
    BY <1>2, <1>5 DEF GoneWorkers, Idle, Gone
  <2> QED
    BY <2>1, <1>2, <1>12 DEF Inv, GoneCounted
<1> QED
  BY <1>13, <1>14, <1>15, <1>16, <1>17, <1>18, <1>19, <1>20, <1>21 DEF Inv

LEMMA StutterInv == Inv /\ UNCHANGED vars => Inv'
<1> SUFFICES ASSUME Inv, UNCHANGED vars PROVE Inv'
  OBVIOUS
<1> USE DEF vars
<1>1. TypeOK'
  BY DEF Inv, TypeOK, Ords, Pairs, PoolStates
<1>2. Control'
  <2>1. Control /\ Reordered(results)' = Reordered(results)
    BY DEF Inv
  <2> QED
    BY <2>1 DEF Control, Untouched, Ords
<1>3. Joined' /\ QueueInOrder' /\ BusyOnce' /\ NotYetRun'
  BY DEF Inv, Joined, QueueInOrder, Fed, Taken, BusyOnce, NotYetRun, Ords
<1>4. AnsweredOnce' /\ NoneLost'
  BY DEF Inv, AnsweredOnce, NoneLost, Answers, Answer, Taken, Ords
<1>5. GoneCounted'
  BY DEF Inv, GoneCounted, GoneWorkers, Taken
<1> QED
  BY <1>1, <1>2, <1>3, <1>4, <1>5 DEF Inv

-----------------------------------------------------------------------------
(* The strengthening is an invariant of the specification: what every      *)
(* theorem below rests on.                                                 *)
THEOREM Invariance == Spec => []Inv
<1>1. Init => Inv
  BY InitInv
<1>2. Inv /\ [Next]_vars => Inv'
  <2>1. Inv /\ Caller => Inv'
    BY RunInlineInv, ChoosePoolSizeInv, SpawnWorkerInv, FeedTaskInv, FeedDoneInv,
       CollectResultInv, JoinWorkerInv, ReturnInv DEF Caller
  <2>2. Inv /\ Worker => Inv'
    BY GetTaskInv, FinishTaskInv DEF Worker
  <2> QED
    BY <2>1, <2>2, StutterInv DEF Next, Finished
<1> QED
  BY <1>1, <1>2, PTL DEF Spec

(* Every variable of the calling thread and of the workers stays in its    *)
(* range: the loops put and take no more than there is.                    *)
THEOREM TypeCorrect == Spec => []TypeOK
<1>1. Inv => TypeOK
  BY DEF Inv
<1> QED
  BY <1>1, Invariance, PTL

(* A worker ends only when every task was taken, whatever the pool size.   *)
THEOREM TasksBeforeDone == Spec => []NoTaskLeftByWorkers
<1>1. Inv => NoTaskLeftByWorkers
  <2> SUFFICES ASSUME Inv, NEW w \in 1..Len(pool), pool[w] = Gone,
                      NEW i \in 1..Len(in_queue)
               PROVE  in_queue[i] = Done
    BY DEF NoTaskLeftByWorkers
  <2>1. n \in Nat /\ Taken \in Int /\ Len(in_queue) \in Nat
    BY DEF Inv, TypeOK, Taken
  <2>2. Taken > n
    <3>1. IsFiniteSet(GoneWorkers)
      <4>1. Len(pool) \in Nat
        BY DEF Inv, TypeOK
      <4>2. IsFiniteSet(1..Len(pool))
        BY <4>1, FS_Interval
      <4>3. GoneWorkers \subseteq 1..Len(pool)
        BY DEF GoneWorkers
      <4> QED
        BY <4>2, <4>3, FS_Subset
    <3>2. Cardinality(GoneWorkers) # 0
      <4>1. w \in GoneWorkers
        BY DEF GoneWorkers
      <4> QED
        BY <3>1, <4>1, FS_EmptySet
    <3> QED
      BY <3>2 DEF Inv, GoneCounted
  <2>3. in_queue[i] = Fed(Taken + i)
    BY DEF Inv, QueueInOrder
  <2> QED
    BY <2>1, <2>2, <2>3 DEF Fed
<1> QED
  BY <1>1, Invariance, PTL

LEMMA QuietAtReturn ==
  ASSUME Inv, pc = "returned", n >= 2
  PROVE  /\ \A w \in 1..Len(pool) : pool[w] = Gone
         /\ in_queue = <<>>
         /\ out_queue = <<>>
<1>1. /\ n \in Nat /\ n_workers \in Nat \ {0} /\ n_ord = n /\ dones = n_workers
      /\ Len(pool) = n_workers /\ joined = n_workers /\ Len(results) = n
      /\ in_queue \in Seq(Ords \cup {Done}) /\ out_queue \in Seq(Pairs)
      /\ results \in Seq(Pairs)
  BY DEF Inv, TypeOK, Control
<1>2. \A w \in 1..Len(pool) : pool[w] = Gone
  BY <1>1 DEF Inv, Joined
<1>3. in_queue = <<>>
  <2>1. GoneWorkers = 1..n_workers
    BY <1>1, <1>2 DEF GoneWorkers
  <2>2. Cardinality(GoneWorkers) = n_workers
    BY <1>1, <2>1, FS_Interval
  <2>3. Len(in_queue) = 0
    BY <1>1, <2>2 DEF Inv, GoneCounted, Taken
  <2> QED
    BY <1>1, <2>3
<1>4. out_queue = <<>>
  <2>1. SUFFICES ASSUME out_queue # <<>> PROVE FALSE
    OBVIOUS
  <2>2. Len(out_queue) \in Nat \ {0} /\ out_queue[1] \in Pairs
    BY <1>1, <2>1
  <2>3. out_queue[1].ord \in 0..(n - 1)
    BY <2>2 DEF Pairs, Ords
  <2>4. PICK j \in 1..n : results[j].ord = out_queue[1].ord
    <3>1. \A o \in 0..(n - 1) : \E j \in 1..n : results[j].ord = o
      BY <1>1, ResultsInOrder
    <3> QED
      BY <2>3, <3>1
  <2>5. /\ j \in 1..Answers /\ n + 1 \in 1..Answers
        /\ Answer(j) = results[j] /\ Answer(n + 1) = out_queue[1]
    BY <1>1, <2>2 DEF Answers, Answer
  <2>6. j = n + 1
    BY <2>4, <2>5 DEF Inv, AnsweredOnce
  <2> QED
    BY <2>6, <1>1
<1> QED
  BY <1>2, <1>3, <1>4

(* A pooled call hands back, at each place of the list, what the one run   *)
(* for that element ended with, and leaves no thread and no message.       *)
THEOREM OrderedReturn == Spec => []ReturnsInOrder
<1>1. Inv => ReturnsInOrder
  <2> SUFFICES ASSUME Inv, pc = "returned", n \notin {0, 1}
               PROVE  /\ Len(ret) = n
                      /\ \A o \in Ords : calls[o] = <<ret[o + 1]>>
                      /\ \A w \in 1..Len(pool) : pool[w] = Gone
                      /\ in_queue = <<>>
                      /\ out_queue = <<>>
    BY DEF ReturnsInOrder
  <2>1. n \in Nat /\ n >= 2 /\ Len(results) = n /\ ret = Reordered(results)
    BY DEF Inv, TypeOK, Control
  <2>2. Len(ret) = n /\ \A o \in Ords : calls[o] = <<ret[o + 1]>>
    BY <2>1, ResultsInOrder DEF Ords
  <2> QED
    BY <2>1, <2>2, QuietAtReturn
<1> QED
  BY <1>1, Invariance, PTL

(* A task that was fed is in exactly one place: a queue, a worker or the   *)
(* list of results.                                                        *)
THEOREM ExactlyOnce == Spec => []NoTaskLostOrDoubled
<1>1. Inv => NoTaskLostOrDoubled
  <2> SUFFICES ASSUME Inv, NEW o \in 0..(n_ord - 1)
               PROVE  \E x : Places(o) = {x}
    BY FS_Singleton DEF NoTaskLostOrDoubled
  <2>1. /\ n \in Nat /\ n_ord \in 0..n /\ dones \in Nat /\ o \in Ords /\ o # Done
        /\ in_queue \in Seq(Ords \cup {Done}) /\ Len(in_queue) \in Nat
        /\ pool \in Seq(PoolStates) /\ Len(pool) \in Nat
        /\ results \in Seq(Pairs) /\ Len(results) \in Nat
        /\ out_queue \in Seq(Pairs) /\ Len(out_queue) \in Nat
    BY DEF Inv, TypeOK, Ords, Done
  <2>2. Taken \in Nat /\ Taken + Len(in_queue) = n_ord + dones
    BY <2>1 DEF Inv, QueueInOrder, Taken
  <2>3. \A i \in 1..Len(in_queue) : in_queue[i] = o <=> i = o + 1 - Taken
    <3>1. \A i \in 1..Len(in_queue) : in_queue[i] = Fed(Taken + i)
      BY DEF Inv, QueueInOrder
    <3> QED
      BY <2>1, <2>2, <3>1 DEF Fed, Ords
  <2>4. \A w \in 1..Len(pool) : pool[w].ord = o => pool[w].state = "busy"
    <3>1. \A w \in 1..Len(pool) : pool[w] \in PoolStates
      BY <2>1
    <3> QED
      BY <2>1, <3>1 DEF PoolStates, Idle, Gone, Busy
  <2>5. \A w \in 1..Len(pool) : pool[w].ord = o => o < Taken /\ calls[o] = <<>>
    BY <2>4 DEF Inv, BusyOnce
  <2>6. \A i \in 1..Answers : Answer(i).ord = o => o < Taken /\ calls[o] # <<>>
    <3>1. \A x : <<x>> # <<>>
      OBVIOUS
    <3> QED
      BY <3>1 DEF Inv, AnsweredOnce
  <2>7. \A i \in 1..Len(results) : i \in 1..Answers /\ Answer(i) = results[i]
    BY <2>1 DEF Answers, Answer
  <2>8. \A i \in 1..Len(out_queue) : /\ Len(results) + i \in 1..Answers
                                    /\ Answer(Len(results) + i) = out_queue[i]
    BY <2>1 DEF Answers, Answer
  <2>9. CASE o >= Taken
    <3>1. o + 1 - Taken \in 1..Len(in_queue)
      BY <2>1, <2>2, <2>9
    <3>2. \A w \in 1..Len(pool) : pool[w].ord # o
      BY <2>1, <2>2, <2>5, <2>9
    <3>3. \A i \in 1..Len(results) : results[i].ord # o
      BY <2>1, <2>2, <2>6, <2>7, <2>9
    <3>4. \A i \in 1..Len(out_queue) : out_queue[i].ord # o
      BY <2>1, <2>2, <2>6, <2>8, <2>9
    <3>5. Places(o) = {<<"in_queue", o + 1 - Taken>>}
      BY <2>3, <3>1, <3>2, <3>3, <3>4 DEF Places
    <3> QED
      BY <3>5
  <2>10. CASE o < Taken
    <3>1. \A i \in 1..Len(in_queue) : in_queue[i] # o
      BY <2>1, <2>2, <2>3, <2>10
    <3>2. CASE \E w \in 1..Len(pool) : pool[w] = Busy(o)
      <4>1. PICK w \in 1..Len(pool) : pool[w] = Busy(o)
        BY <3>2
      <4>2. \A v \in 1..Len(pool) : pool[v].ord = o <=> v = w
        BY <4>1, <2>4 DEF Inv, BusyOnce, Busy
      <4>3. calls[o] = <<>>
        BY <4>1, <2>5 DEF Busy
      <4>4. \A i \in 1..Len(results) : results[i].ord # o
        BY <4>3, <2>6, <2>7
      <4>5. \A i \in 1..Len(out_queue) : out_queue[i].ord # o
        BY <4>3, <2>6, <2>8
      <4>6. Places(o) = {<<"worker", w>>}
        BY <3>1, <4>2, <4>4, <4>5 DEF Places
      <4> QED
        BY <4>6
    <3>3. CASE \E i \in 1..Answers : Answer(i).ord = o
      <4>1. PICK i \in 1..Answers : Answer(i).ord = o
        BY <3>3
      <4>2. \A w \in 1..Len(pool) : pool[w].ord # o
        BY <4>1, <2>5, <2>6
      <4>3. \A j \in 1..Answers : Answer(j).ord = o => j = i
        BY <4>1 DEF Inv, AnsweredOnce
      <4>4. CASE i <= Len(results)
        <5>1. \A j \in 1..Len(results) : results[j].ord = o <=> j = i
          BY <4>1, <4>3, <4>4, <2>7
        <5>2. \A j \in 1..Len(out_queue) : out_queue[j].ord # o
          BY <4>3, <4>4, <2>1, <2>8
        <5>3. i \in 1..Len(results)
          BY <4>4, <2>1 DEF Answers
        <5>4. Places(o) = {<<"results", i>>}
          BY <3>1, <4>2, <5>1, <5>2, <5>3 DEF Places
        <5> QED
          BY <5>4
      <4>5. CASE ~(i <= Len(results))
        <5>1. i - Len(results) \in 1..Len(out_queue)
          BY <4>5, <2>1 DEF Answers
        <5>2. PICK k \in 1..Len(out_queue) : k = i - Len(results)
          BY <5>1
        <5>3. Len(results) + k = i
          BY <5>2, <2>1 DEF Answers
        <5>4. \A j \in 1..Len(out_queue) : out_queue[j].ord = o <=> j = k
          <6>1. out_queue[k].ord = o
            BY <4>1, <5>3, <2>8
          <6>2. \A j \in 1..Len(out_queue) : out_queue[j].ord = o => Len(results) + j = i
            BY <4>3, <2>8
          <6> QED
            BY <6>1, <6>2, <5>3, <2>1
        <5>5. \A j \in 1..Len(results) : results[j].ord # o
          BY <4>3, <4>5, <2>1, <2>7
        <5>6. Places(o) = {<<"out_queue", k>>}
          BY <3>1, <4>2, <5>4, <5>5 DEF Places
        <5> QED
          BY <5>6
      <4> QED
        BY <4>4, <4>5
    <3> QED
      BY <2>1, <2>10, <3>2, <3>3 DEF Inv, NoneLost
  <2>11. o >= Taken \/ o < Taken
    BY <2>1, <2>2
  <2> QED
    BY <2>9, <2>10, <2>11
<1> QED
  BY <1>1, Invariance, PTL

-----------------------------------------------------------------------------
(* The pool of threads does what the docstring of the decorator promises:  *)
(* each run is one of the abstract map's, and the sorted results are its   *)
(* return.                                                                 *)
THEOREM Refinement == Spec => ImplementsMap
<1> USE DEF Map!Ords, Ords, Map!mapVars
<1>1. Init => Map!MapInit
  BY DEF Init, Map!MapInit
<1>2. Inv /\ Inv' /\ [Next]_vars => [Map!MapNext]_(Map!mapVars)
  <2> SUFFICES ASSUME Inv, Inv', [Next]_vars
               PROVE  Map!MapNext \/ UNCHANGED <<n, calls, ret>>
    OBVIOUS
  <2>1. CASE RunInline
    <3>1. PICK r \in Results : calls' = [o \in Ords |-> <<r>>] /\ ret' = <<r>>
      BY <2>1 DEF RunInline
    <3>2. n < 2 /\ ret = <<>> /\ UNCHANGED n
      BY <2>1 DEF RunInline, Inv, Control
    <3>3. Map!RunDirectly(r)
      BY <3>1, <3>2 DEF Map!RunDirectly
    <3> QED
      BY <3>3 DEF Map!MapNext
  <2>2. CASE Return
    <3>1. n >= 2 /\ ret = <<>> /\ UNCHANGED <<n, calls>> /\ pc' = "returned" /\ n \in Nat
      BY <2>2 DEF Return, Inv, Control, TypeOK
    <3>2. Len(results) = n /\ ret' = Reordered(results)
      BY <2>2 DEF Return, Inv, Control
    <3>3. ret' \in Seq(Results) /\ Len(ret') = n
      BY <3>1, <3>2, ResultsInOrder
    <3>4. \A x : <<x>> # <<>>
      OBVIOUS
    <3>5. \A o \in 0..(n - 1) : calls[o] = <<ret'[o + 1]>>
      BY <3>1, <3>2, ResultsInOrder
    <3>6. \A i \in 1..n : ret'[i] = calls[i - 1][1]
      <4>1. \A i \in 1..n : i - 1 \in 0..(n - 1) /\ (i - 1) + 1 = i
        BY <3>1
      <4>2. \A i \in 1..n : calls[i - 1] = <<ret'[i]>>
        BY <3>5, <4>1
      <4> QED
        BY <4>2
    <3>7. ret' = [i \in 1..n |-> calls[i - 1][1]]
      BY <3>1, <3>3, <3>6
    <3>8. \A o \in 0..(n - 1) : calls[o] # <<>>
      BY <3>4, <3>5
    <3> QED
      BY <3>1, <3>7, <3>8 DEF Map!MapNext, Map!ReturnInOrder
  <2>3. ASSUME NEW w \in 1..Len(pool), FinishTask(w)
        PROVE  Map!MapNext
    <3>1. PICK r \in Results : calls' = [calls EXCEPT ![pool[w].ord] = Append(@, r)]
      BY <2>3 DEF FinishTask
    <3>2. pool[w].ord \in Ords /\ calls[pool[w].ord] = <<>> /\ UNCHANGED <<n, ret>>
      BY <2>3 DEF FinishTask, Inv, BusyOnce
    <3>3. ret = <<>>
      <4>1. pc # "returned"
        <5>1. pool[w] # Gone /\ pool # <<>> /\ n \in Nat
          BY <2>3 DEF FinishTask, Gone, Inv, TypeOK
        <5>2. pc = "returned" => n >= 2
          BY <5>1 DEF Inv, Control, Untouched
        <5> QED
          BY <5>1, <5>2, QuietAtReturn
      <4> QED
        BY <4>1 DEF Inv, Control
    <3>4. calls' = [calls EXCEPT ![pool[w].ord] = <<r>>]
      BY <3>1, <3>2
    <3>5. Map!Run(pool[w].ord, r)
      BY <3>2, <3>3, <3>4 DEF Map!Run
    <3> QED
      BY <3>2, <3>5 DEF Map!MapNext
  <2>4. CASE /\ ~RunInline /\ ~Return
             /\ \A w \in 1..Len(pool) : ~FinishTask(w)
    BY <2>4 DEF Next, Caller, Worker, Finished, vars, ChoosePoolSize,
       SpawnWorker, FeedTask, FeedDone, CollectResult, JoinWorker, GetTask
  <2> QED
    BY <2>1, <2>2, <2>3, <2>4
<1> QED
  BY <1>1, <1>2, Invariance, PTL DEF Spec, ImplementsMap, Map!MapSpec
=============================================================================
