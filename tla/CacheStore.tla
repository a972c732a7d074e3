----------------------------- MODULE CacheStore -----------------------------
(***************************************************************************)
(* What jenkins_jobs/cache.py promises: one store per Jenkins URL, holding *)
(* at every moment a whole snapshot that some run meant to keep, and runs  *)
(* that use it one after the other.  How files, renames and locks achieve  *)
(* it is left to JobCache.                                                 *)
(***************************************************************************)
CONSTANTS
    Runs,      \* the jenkins-jobs processes
    Names,     \* job and view names
    Md5s,      \* digests, the "" that marks a deleted job among them
    NoRun,
    NoEntry    \* a name without an entry

VARIABLES
    store, \* the snapshot a run would read now
    owner, \* the run that holds the store, or NoRun
    view,  \* the owner's copy of it
    mayForget \* whether a save may be cut in two after it emptied the store:
              \* not where a rename replaces and no rename fails

storeVars == <<store, owner, view, mayForget>>

Snapshots == [Names -> Md5s \cup {NoEntry}]
EmptySnapshot == [j \in Names |-> NoEntry]

StoreInit ==
    /\ store \in Snapshots
    /\ owner = NoRun
    /\ view = EmptySnapshot
    /\ mayForget \in BOOLEAN

Acquire(r) ==
    /\ owner = NoRun
    /\ owner' = r
    /\ UNCHANGED <<store, view>>

(* The copy a run starts from: the store, or nothing for --flush-cache.    *)
Read ==
    /\ owner # NoRun
    /\ view' \in {store, EmptySnapshot}
    /\ UNCHANGED <<store, owner>>

Edit ==
    /\ owner # NoRun
    /\ \/ \E j \in Names, m \in Md5s : view' = [view EXCEPT ![j] = m]
       \/ view' = EmptySnapshot
    /\ UNCHANGED <<store, owner>>

Commit ==
    /\ owner # NoRun
    /\ store' = view
    /\ UNCHANGED <<owner, view>>

Forget ==
    /\ mayForget
    /\ owner # NoRun
    /\ store' = EmptySnapshot
    /\ UNCHANGED <<owner, view>>

Release ==
    /\ owner # NoRun
    /\ owner' = NoRun
    /\ view' = EmptySnapshot
    /\ UNCHANGED store

StoreNext ==
    /\ UNCHANGED mayForget
    /\ \/ \E r \in Runs : Acquire(r)
       \/ Read
       \/ Edit
       \/ Commit
       \/ Forget
       \/ Release

StoreSpec == StoreInit /\ [][StoreNext]_storeVars
=============================================================================
