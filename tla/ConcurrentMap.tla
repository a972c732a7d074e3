--------------------------- MODULE ConcurrentMap ---------------------------
(***************************************************************************)
(* What the @concurrent decorator of jenkins_jobs/parallel.py promises to  *)
(* its callers (docstring of `concurrentized`): the decorated function is  *)
(* run for every element of the `concurrent' list, in any order, and the   *)
(* call hands back the results in the order of that list.  Nothing is said *)
(* of threads or of queues.                                                *)
(*                                                                         *)
(* A list of fewer than two elements is run directly by the caller; the    *)
(* bare result it gets is written here as a sequence of one element, which *)
(* is what JenkinsManager.update_jobs makes of it (results = [results]).   *)
(***************************************************************************)
EXTENDS Integers, Sequences

CONSTANTS
    TaskCounts, \* the lengths a `concurrent' list may have
    Results     \* what one run of the function may end with, exceptions included

VARIABLES
    n,     \* length of the list of this call
    calls, \* calls[o]: the results of the runs for element o, oldest first
    ret    \* <<>> until the call returns, then what it returns

mapVars == <<n, calls, ret>>

Ords == 0..(n - 1)

MapInit ==
    /\ n \in TaskCounts
    /\ calls = [o \in Ords |-> <<>>]
    /\ ret = <<>>

(* One run of the function, for an element that had none.                  *)
Run(o, r) ==
    /\ ret = <<>>
    /\ calls[o] = <<>>
    /\ calls' = [calls EXCEPT ![o] = <<r>>]
    /\ UNCHANGED <<n, ret>>

(* A list of none or one: the caller runs the function itself.  With an    *)
(* empty list the function is run without a parameter of the list.         *)
RunDirectly(r) ==
    /\ n < 2
    /\ ret = <<>>
    /\ calls' = [o \in Ords |-> <<r>>]
    /\ ret' = <<r>>
    /\ UNCHANGED n

ReturnInOrder ==
    /\ n >= 2
    /\ ret = <<>>
    /\ \A o \in Ords : calls[o] # <<>>
    /\ ret' = [i \in 1..n |-> calls[i - 1][1]]
    /\ UNCHANGED <<n, calls>>

MapNext ==
    \/ \E o \in Ords, r \in Results : Run(o, r)
    \/ \E r \in Results : RunDirectly(r)
    \/ ReturnInOrder

MapSpec == MapInit /\ [][MapNext]_mapVars
=============================================================================
