--------------------------- MODULE JobCacheProofs ---------------------------
(***************************************************************************)
(* Proofs about JobCache, for any number of processes, names and digests   *)
(* and for every kind of rename.                                           *)
(*                                                                         *)
(* The argument: a process is between its lock and its unlock exactly when *)
(* it is the one the lock names, so only one process ever touches the      *)
(* file; what it last read or wrote is therefore what the file holds, and  *)
(* a temporary file is renamed only when it holds all of data.             *)
(***************************************************************************)
EXTENDS JobCache, TLAPS

LockNamesHolder == \A r \in Runs : pc[r] \in Holding <=> lock = r

TempIsData ==
    \A r \in Runs : pc[r] \in {"written", "refused", "removed"} => temp[r] = data[r]

(* A process that has not loaded has the copy the lock's next owner is     *)
(* seen with.                                                              *)
FreshIsEmpty ==
    \A r \in Runs : pc[r] \in {"out", "locking", "loading"} => data[r] = Empty

(* The handler runs only where a rename may raise.                         *)
RefusedForAReason ==
    \A r \in Runs : pc[r] \in {"refused", "removed"} => osRename # "replaces"

(* The inductive invariant.                                                *)
Inv ==
    /\ TypeOK
    /\ LockNamesHolder
    /\ NoLostUpdate
    /\ FileIsWhole
    /\ TempIsData
    /\ RefusedForAReason
    /\ FreshIsEmpty

LEMMA EmptyIsSnapshot == Empty \in Snapshot
  BY DEF Empty, Snapshot

LEMMA SnapshotIsWhole ==
    /\ NoFile \notin Snapshot
    /\ Partial \notin Snapshot
    /\ Partial # NoFile
  BY JobCacheAssumption DEF JobCacheAssumption, Snapshot

LEMMA InvInit == Init => Inv
  BY JobCacheAssumption, EmptyIsSnapshot, SnapshotIsWhole
     DEF JobCacheAssumption, Init, Inv, TypeOK, RenameKinds, LockNamesHolder, NoLostUpdate,
         FileIsWhole, TempIsData, RefusedForAReason, FreshIsEmpty, Holding

LEMMA InvNext == Inv /\ [Next]_vars => Inv'
  <1>. SUFFICES ASSUME Inv, [Next]_vars PROVE Inv'
    OBVIOUS
  <1>. USE JobCacheAssumption, EmptyIsSnapshot, SnapshotIsWhole
       DEF JobCacheAssumption, Inv, TypeOK, LockNamesHolder, NoLostUpdate,
           FileIsWhole, TempIsData, RefusedForAReason, FreshIsEmpty, Holding
  <1>1. CASE UNCHANGED vars
    BY <1>1 DEF vars
  <1>2. ASSUME NEW r \in Runs, Start(r) PROVE Inv'
    BY <1>2 DEF Start
  <1>3. ASSUME NEW r \in Runs, Construct(r) PROVE Inv'
    <2>1. CASE Lock(r)
      BY <2>1 DEF Lock
    <2>2. CASE LockTimeout(r)
      BY <2>2 DEF LockTimeout
    <2>3. CASE Load(r)
      BY <2>3 DEF Load
    <2>4. CASE Flush(r)
      BY <2>4 DEF Flush
    <2>5. CASE LoadFails(r)
      BY <2>5 DEF LoadFails
    <2>. QED
      BY <1>3, <2>1, <2>2, <2>3, <2>4, <2>5 DEF Construct
  <1>4. ASSUME NEW r \in Runs, Change(r) PROVE Inv'
    <2>1. CASE Clear(r)
      BY <2>1 DEF Clear
    <2>2. ASSUME NEW j \in Names, NEW m \in Md5s, Set(r, j, m) PROVE Inv'
      <3>1. data'[r] \in Snapshot /\ data' \in [Runs -> Snapshot]
        BY <2>2 DEF Set, Snapshot
      <3>. QED
        BY <2>2, <3>1 DEF Set
    <2>. QED
      BY <1>4, <2>1, <2>2 DEF Change
  <1>5. ASSUME NEW r \in Runs, Save(r) PROVE Inv'
    BY <1>5 DEF Save
  <1>6. ASSUME NEW r \in Runs, Del(r) PROVE Inv'
    BY <1>6 DEF Del
  <1>7. ASSUME NEW r \in Runs, Write(r) PROVE Inv'
    <2>1. CASE WriteTemp(r)
      BY <2>1 DEF WriteTemp
    <2>2. CASE Rename(r)
      BY <2>2 DEF Rename, AfterSave
    <2>3. CASE RenameFails(r)
      BY <2>3 DEF RenameFails
    <2>4. CASE RemoveOld(r)
      BY <2>4 DEF RemoveOld
    <2>5. CASE SaveFails(r)
      BY <2>5 DEF SaveFails, AfterSave
    <2>. QED
      BY <1>7, <2>1, <2>2, <2>3, <2>4, <2>5 DEF Write
  <1>8. ASSUME NEW r \in Runs, Unlock(r) PROVE Inv'
    BY <1>8 DEF Unlock
  <1>9. ASSUME NEW r \in Runs, Kill(r) PROVE Inv'
    BY <1>9 DEF Kill
  <1>. QED
    BY <1>1, <1>2, <1>3, <1>4, <1>5, <1>6, <1>7, <1>8, <1>9 DEF Next

(* The inductive invariant holds of every run of JobCache.                 *)
THEOREM Invariance == Spec => []Inv
  BY InvInit, InvNext, PTL DEF Spec

(* The JobCache objects and the files keep their types.                    *)
THEOREM TypeCorrect == Spec => []TypeOK
  <1>1. Inv => TypeOK
    BY DEF Inv
  <1>. QED
    BY <1>1, Invariance, PTL

(* Any number of processes, kills and lock timeouts: one holder at a time, *)
(* and no lock without a living holder (cache.py:51-56, 70-74).            *)
THEOREM MutualExclusion == Spec => []OneHolder
  <1>1. Inv => OneHolder
    BY DEF Inv, LockNamesHolder, TypeOK, OneHolder
  <1>. QED
    BY <1>1, Invariance, PTL

(* What a process writes back is a change of what the file held when the   *)
(* process wrote it, never of an older content (cache.py:52-62, 112-145).  *)
THEOREM LostUpdateFree == Spec => []NoLostUpdate
  <1>1. Inv => NoLostUpdate
    BY DEF Inv
  <1>. QED
    BY <1>1, Invariance, PTL

(* No kill and no failed write leaves a torn cache file behind             *)
(* (cache.py:114-130).                                                     *)
THEOREM NeverTorn == Spec => []FileIsWhole
  <1>1. Inv => FileIsWhole
    BY DEF Inv
  <1>. QED
    BY <1>1, Invariance, PTL

(* The cache file vanishes only after a refused rename, by the process     *)
(* that holds the lock and has all it keeps in a whole temporary file;     *)
(* where renames replace it never vanishes (cache.py:124-130).             *)
THEOREM NeverVanishes == Spec => FileStays
  <1>. DEFINE Saved == /\ osRename # "replaces"
                      /\ \E r \in Runs : lock = r /\ temp'[r] = data[r]
  <1>1. Inv /\ [Next]_vars => [file # NoFile /\ file' = NoFile => Saved]_vars
    <2>. SUFFICES ASSUME Inv, Next, file # NoFile, file' = NoFile
                  PROVE  Saved
      BY DEF vars
    <2>. HIDE DEF Saved
    <2>1. ASSUME NEW r \in Runs, RemoveOld(r) PROVE Saved
      <3>1. lock = r /\ temp' = temp /\ temp[r] = data[r]
        BY <2>1 DEF RemoveOld, Inv, LockNamesHolder, TempIsData, Holding
      <3>2. osRename # "replaces"
        BY <2>1 DEF RemoveOld, Inv, RefusedForAReason
      <3>. QED
        BY <3>1, <3>2 DEF Saved
    <2>2. ASSUME NEW r \in Runs, Rename(r) PROVE file' # NoFile
      <3>1. pc[r] \in {"written", "removed"} /\ file' = temp[r]
        BY <2>2 DEF Rename
      <3>. QED
        BY <3>1, SnapshotIsWhole DEF Inv, TypeOK, TempIsData
    <2>3. ASSUME NEW r \in Runs, WriteTemp(r) \/ RenameFails(r) \/ SaveFails(r)
          PROVE  file' # NoFile
      BY <2>3 DEF WriteTemp, RenameFails, SaveFails
    <2>4. ASSUME NEW r \in Runs,
                 Start(r) \/ Construct(r) \/ Change(r) \/ Save(r) \/ Del(r)
                   \/ Unlock(r) \/ Kill(r)
          PROVE  file' # NoFile
      BY <2>4 DEF Start, Construct, Lock, LockTimeout, Load, Flush, LoadFails,
                  Change, Clear, Set, Save, Del, Unlock, Kill
    <2>. QED
      BY <2>1, <2>2, <2>3, <2>4 DEF Next, Write
  <1>. QED
    BY <1>1, Invariance, PTL DEF Spec, FileStays

-----------------------------------------------------------------------------
LEMMA StoreInit == Init => Store!StoreInit
  BY DEF Init, Store!StoreInit, Store!Snapshots, Store!EmptySnapshot, Snapshot, Empty

(* Every step of a process is one step of the store, or none.              *)
LEMMA StoreStep == Inv /\ [Next]_vars => [Store!StoreNext]_(Store!storeVars)
  <1>. SUFFICES ASSUME Inv, [Next]_vars
                PROVE  [Store!StoreNext]_(Store!storeVars)
    OBVIOUS
  <1>t. TypeOK /\ LockNamesHolder /\ TempIsData /\ FreshIsEmpty
    BY DEF Inv
  <1>a. NoRun \notin Runs
    BY JobCacheAssumption DEF JobCacheAssumption
  <1>e. Store!EmptySnapshot = Empty
    BY DEF Store!EmptySnapshot, Empty
  <1>p. UNCHANGED (osRename # "replaces")
    <2>1. CASE UNCHANGED vars
      BY <2>1 DEF vars
    <2>2. CASE Next
      BY <2>2 DEF Next, Start, Construct, Lock, LockTimeout, Load, Flush,
                  LoadFails, Change, Clear, Set, Save, Del, Write, WriteTemp,
                  Rename, RenameFails, RemoveOld, SaveFails, Unlock, Kill
    <2>. QED
      BY <2>1, <2>2
  <1>1. CASE UNCHANGED vars
    BY <1>1 DEF vars, Store!storeVars
  <1>2. ASSUME NEW r \in Runs,
               Start(r) \/ LockTimeout(r) \/ LoadFails(r) \/ Save(r) \/ Del(r)
                 \/ WriteTemp(r) \/ RenameFails(r) \/ SaveFails(r)
        PROVE  UNCHANGED Store!storeVars
    BY <1>2 DEF Store!storeVars, Start, LockTimeout, LoadFails, Save, Del,
                WriteTemp, RenameFails, SaveFails
  <1>3. ASSUME NEW r \in Runs, Lock(r) PROVE Store!Acquire(r)
    <2>1. lock = NoRun /\ lock' = r /\ UNCHANGED <<file, data>> /\ data[r] = Empty
      BY <1>3, <1>t DEF Lock, FreshIsEmpty
    <2>. QED
      BY <2>1, <1>a DEF Store!Acquire
  <1>4. ASSUME NEW r \in Runs, Load(r) \/ Flush(r) PROVE Store!Read
    <2>1. lock = r /\ lock # NoRun /\ pc[r] \in Holding
      BY <1>4, <1>t, <1>a DEF LockNamesHolder, Load, Flush, Holding
    <2>. QED
      BY <1>4, <1>t, <1>e, <2>1 DEF Load, Flush, TypeOK, Store!Read
  <1>5. ASSUME NEW r \in Runs, Change(r) PROVE Store!Edit
    <2>1. lock = r /\ lock # NoRun
      BY <1>5, <1>t, <1>a DEF LockNamesHolder, Change, Clear, Set, Holding
    <2>2. CASE Clear(r)
      BY <2>1, <2>2, <1>e, <1>t DEF Clear, Store!Edit, TypeOK
    <2>3. ASSUME NEW j \in Names, NEW m \in Md5s, Set(r, j, m) PROVE Store!Edit
      <3>1. data'[r] = [data[r] EXCEPT ![j] = m] /\ UNCHANGED <<lock, file>>
        BY <2>3, <1>t DEF Set, TypeOK
      <3>. QED
        BY <2>1, <3>1 DEF Store!Edit
    <2>. QED
      BY <1>5, <2>2, <2>3 DEF Change
  <1>6. ASSUME NEW r \in Runs, Rename(r) PROVE Store!Commit
    <2>1. lock = r /\ lock # NoRun
      BY <1>6, <1>t, <1>a DEF LockNamesHolder, Rename, Holding
    <2>2. file' = data[r] /\ file' # NoFile /\ UNCHANGED <<lock, data>>
      BY <1>6, <1>t, SnapshotIsWhole DEF Rename, TempIsData, TypeOK
    <2>. QED
      BY <2>1, <2>2 DEF Store!Commit
  <1>7. ASSUME NEW r \in Runs, RemoveOld(r) PROVE Store!Forget
    <2>1. lock = r /\ lock # NoRun
      BY <1>7, <1>t, <1>a DEF LockNamesHolder, RemoveOld, Holding
    <2>2. osRename # "replaces"
      BY <1>7 DEF Inv, RefusedForAReason, RemoveOld
    <2>. QED
      BY <1>7, <2>1, <2>2, <1>e DEF RemoveOld, Store!Forget
  <1>8. ASSUME NEW r \in Runs, Unlock(r) \/ Kill(r)
        PROVE  Store!Release \/ UNCHANGED Store!storeVars
    <2>1. CASE lock = r
      <3>1. lock' = NoRun /\ UNCHANGED file
        BY <1>8, <2>1 DEF Unlock, Kill
      <3>. QED
        BY <2>1, <3>1, <1>a, <1>e DEF Store!Release
    <2>2. CASE lock # r
      <3>1. UNCHANGED <<lock, file>> /\ data' = [data EXCEPT ![r] = Empty]
        BY <1>8, <2>2, <1>t DEF Unlock, Kill, LockNamesHolder, Holding
      <3>. QED
        BY <2>2, <3>1, <1>t, <1>p DEF Store!storeVars, TypeOK
    <2>. QED
      BY <2>1, <2>2
  <1>9. ASSUME NEW r \in Runs, Construct(r) \/ Write(r)
         PROVE  Store!StoreNext \/ UNCHANGED Store!storeVars
    BY <1>p, <1>2, <1>3, <1>4, <1>6, <1>7, <1>9
       DEF Construct, Write, Store!StoreNext
  <1>. QED
    BY <1>1, <1>2, <1>5, <1>8, <1>9, <1>p DEF Next, Store!StoreNext

(* JobCache, with its files and its lock, implements CacheStore.           *)
THEOREM Refinement == Spec => ImplementsStore
  BY StoreInit, StoreStep, Invariance, PTL DEF Spec, ImplementsStore, Store!StoreSpec
=============================================================================
