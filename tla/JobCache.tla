------------------------------ MODULE JobCache ------------------------------
(***************************************************************************)
(* jenkins_jobs/cache.py: the JobCache object of several jenkins-jobs      *)
(* processes that work on the same Jenkins URL.                            *)
(*                                                                         *)
(* A process takes an inter-process lock for up to 60 seconds, reads the   *)
(* cache file, changes its copy, and writes it back through a temporary    *)
(* file and a rename; the destructor writes it once more and releases the  *)
(* lock.  A process may be killed between any two of these steps, and a    *)
(* write, a rename or a removal may fail; the operating system frees the   *)
(* lock of a process that is gone.                                         *)
(*                                                                         *)
(* A digest stands for itself; the YAML text of a file is the mapping it   *)
(* is the dump of, or Partial when it was not written to its end.          *)
(***************************************************************************)
EXTENDS Naturals

CONSTANTS
    Runs,           \* processes; one that ended may be started again
    Names,          \* job and view names
    Md5s,           \* digests, the "" that marks a deleted job among them
    NoRun,          \* nobody holds the lock
    NoEntry,        \* a name that is not a key of data
    NoFile,         \* no file under that name
    Partial         \* a file that is not written to its end

ASSUME JobCacheAssumption ==
    /\ NoRun \notin Runs
    /\ NoEntry \notin Md5s
    /\ Partial # NoFile
    /\ {NoFile, Partial} \cap [Names -> Md5s \cup {NoEntry}] = {}

VARIABLES
    osRename, \* what os.rename does, one of RenameKinds
    lock,    \* the process that holds cachefilename + ".lock"
    file,    \* what is under cachefilename
    pc,      \* pc[r]: where process r is
    data,    \* data[r]: self.data
    temp,    \* temp[r]: the temporary file of the save r is in
    closing, \* closing[r]: the save is the destructor's
    read     \* history: what file held when r last read or wrote it

vars == <<osRename, lock, file, pc, data, temp, closing, read>>

(* os.rename replaces an existing file (POSIX), refuses when there is one   *)
(* (Windows), or may raise OSError whatever is there (a failing disk, a    *)
(* directory that went away).                                              *)
RenameKinds == {"replaces", "refuses", "fails"}

Snapshot == [Names -> Md5s \cup {NoEntry}]

(* What a missing file stands for: self.data = {}.                         *)
Empty == [j \in Names |-> NoEntry]

(* The places of a process that holds the lock.                            *)
Holding == {"loading", "open", "created", "written", "refused", "removed",
            "unlocking"}

-----------------------------------------------------------------------------
Init ==
    /\ osRename \in RenameKinds
    /\ lock = NoRun
    /\ file \in {NoFile} \cup Snapshot
    /\ pc = [r \in Runs |-> "out"]
    /\ data = [r \in Runs |-> Empty]
    /\ temp = [r \in Runs |-> NoFile]
    /\ closing = [r \in Runs |-> FALSE]
    /\ read = [r \in Runs |-> NoFile]

(* JobCache(url): the constructor starts with the lock.                    *)
Start(r) ==
    /\ pc[r] = "out"
    /\ pc' = [pc EXCEPT ![r] = "locking"]
    /\ UNCHANGED <<osRename, lock, file, data, temp, closing, read>>

Lock(r) ==
    /\ pc[r] = "locking"
    /\ lock = NoRun
    /\ lock' = r
    /\ pc' = [pc EXCEPT ![r] = "loading"]
    /\ UNCHANGED <<osRename, file, data, temp, closing, read>>

(* Mutant of LockTimeout: what acquire() answered is not looked at.        *)
LockTimeoutIgnored(r) ==
    /\ pc[r] = "locking"
    /\ lock # NoRun
    /\ pc' = [pc EXCEPT ![r] = "loading"]
    /\ UNCHANGED <<osRename, lock, file, data, temp, closing, read>>

(* Mutant of LockTimeout: acquire() is called without a timeout.           *)
LockForever(r) ==
    /\ pc[r] = "locking"
    /\ lock # NoRun
    /\ UNCHANGED vars

(* Not acquired within 60 seconds: "Unable to lock cache", and the         *)
(* destructor finds neither data to save nor a lock to release.            *)
LockTimeout(r) ==
    /\ pc[r] = "locking"
    /\ lock # NoRun
    /\ pc' = [pc EXCEPT ![r] = "out"]
    /\ UNCHANGED <<osRename, lock, file, data, temp, closing, read>>

(* Mutant of Load: no test for a missing file, data is None.               *)
LoadUnchecked(r) ==
    /\ pc[r] = "loading"
    /\ data' = [data EXCEPT ![r] = file]
    /\ read' = [read EXCEPT ![r] = file]
    /\ pc' = [pc EXCEPT ![r] = "open"]
    /\ UNCHANGED <<osRename, lock, file, temp, closing>>

Load(r) ==
    /\ pc[r] = "loading"
    /\ data' = [data EXCEPT ![r] = IF file = NoFile THEN Empty ELSE file]
    /\ read' = [read EXCEPT ![r] = file]
    /\ pc' = [pc EXCEPT ![r] = "open"]
    /\ UNCHANGED <<osRename, lock, file, temp, closing>>

(* flush=True (--flush-cache): the file is not read.                       *)
Flush(r) ==
    /\ pc[r] = "loading"
    /\ data' = [data EXCEPT ![r] = Empty]
    /\ read' = [read EXCEPT ![r] = file]
    /\ pc' = [pc EXCEPT ![r] = "open"]
    /\ UNCHANGED <<osRename, lock, file, temp, closing>>

(* The read raises: the destructor finds no data and only unlocks.         *)
LoadFails(r) ==
    /\ pc[r] = "loading"
    /\ pc' = [pc EXCEPT ![r] = "unlocking"]
    /\ UNCHANGED <<osRename, lock, file, data, temp, closing, read>>

(* set(job, md5)                                                           *)
Set(r, j, m) ==
    /\ pc[r] = "open"
    /\ ~closing[r]
    /\ data' = [data EXCEPT ![r][j] = m]
    /\ UNCHANGED <<osRename, lock, file, pc, temp, closing, read>>

(* clear()                                                                 *)
Clear(r) ==
    /\ pc[r] = "open"
    /\ ~closing[r]
    /\ data' = [data EXCEPT ![r] = Empty]
    /\ UNCHANGED <<osRename, lock, file, pc, temp, closing, read>>

(* Mutant of Save: the cache file itself is opened for writing.            *)
SaveInPlace(r) ==
    /\ pc[r] = "open"
    /\ ~closing[r]
    /\ file' = Partial
    /\ temp' = [temp EXCEPT ![r] = Partial]
    /\ read' = [read EXCEPT ![r] = Partial]
    /\ pc' = [pc EXCEPT ![r] = "created"]
    /\ UNCHANGED <<osRename, lock, data, closing>>

(* save() called by JenkinsManager: NamedTemporaryFile.                    *)
Save(r) ==
    /\ pc[r] = "open"
    /\ ~closing[r]
    /\ temp' = [temp EXCEPT ![r] = Partial]
    /\ pc' = [pc EXCEPT ![r] = "created"]
    /\ UNCHANGED <<osRename, lock, file, data, closing, read>>

(* Mutant of Del: the lock is released before the last save.               *)
DelUnlocksFirst(r) ==
    /\ pc[r] = "open"
    /\ lock' = NoRun
    /\ closing' = [closing EXCEPT ![r] = TRUE]
    /\ temp' = [temp EXCEPT ![r] = Partial]
    /\ pc' = [pc EXCEPT ![r] = "created"]
    /\ UNCHANGED <<osRename, file, data, read>>

(* __del__: the same save, whose failure is logged.                        *)
Del(r) ==
    /\ pc[r] = "open"
    /\ closing' = [closing EXCEPT ![r] = TRUE]
    /\ temp' = [temp EXCEPT ![r] = Partial]
    /\ pc' = [pc EXCEPT ![r] = "created"]
    /\ UNCHANGED <<osRename, lock, file, data, read>>

(* write, flush and fsync of the temporary file.                           *)
WriteTemp(r) ==
    /\ pc[r] = "created"
    /\ temp' = [temp EXCEPT ![r] = data[r]]
    /\ pc' = [pc EXCEPT ![r] = "written"]
    /\ UNCHANGED <<osRename, lock, file, data, closing, read>>

AfterSave(r) == IF closing[r] THEN "unlocking" ELSE "open"

(* The first os.rename, or the second one after the removal.               *)
Rename(r) ==
    /\ \/ pc[r] = "written" /\ (osRename = "refuses" => file = NoFile)
       \/ pc[r] = "removed"
    /\ file' = temp[r]
    /\ temp' = [temp EXCEPT ![r] = NoFile]
    /\ read' = [read EXCEPT ![r] = temp[r]]
    /\ pc' = [pc EXCEPT ![r] = AfterSave(r)]
    /\ UNCHANGED <<osRename, lock, data, closing>>

(* The first os.rename raises OSError, of whatever kind and on whatever    *)
(* system: the handler is for all of them.                                 *)
RenameFails(r) ==
    /\ pc[r] = "written"
    /\ \/ osRename = "refuses" /\ file # NoFile
       \/ osRename = "fails"
    /\ pc' = [pc EXCEPT ![r] = "refused"]
    /\ UNCHANGED <<osRename, lock, file, data, temp, closing, read>>

(* Mutant of RemoveOld: the old file is removed without a rename tried.    *)
RemoveOldAlways(r) ==
    /\ pc[r] \in {"written", "refused"}
    /\ file # NoFile
    /\ file' = NoFile
    /\ read' = [read EXCEPT ![r] = NoFile]
    /\ pc' = [pc EXCEPT ![r] = "removed"]
    /\ UNCHANGED <<osRename, lock, data, temp, closing>>

(* The handler of a rename that raised: os.remove of the cache file.       *)
RemoveOld(r) ==
    /\ pc[r] = "refused"
    /\ file # NoFile
    /\ file' = NoFile
    /\ read' = [read EXCEPT ![r] = NoFile]
    /\ pc' = [pc EXCEPT ![r] = "removed"]
    /\ UNCHANGED <<osRename, lock, data, temp, closing>>

(* The write, the removal (no file to remove, for one) or the second       *)
(* rename raises, and the temporary file is left for nobody.  A failing    *)
(* first rename is RenameFails: what it leads to may have removed the      *)
(* cache file before the save fails.  In the destructor the error is       *)
(* logged; otherwise it ends the command, and the destructor tries again.  *)
SaveFails(r) ==
    /\ pc[r] \in {"created", "refused", "removed"}
    /\ temp' = [temp EXCEPT ![r] = NoFile]
    /\ pc' = [pc EXCEPT ![r] = AfterSave(r)]
    /\ closing' = [closing EXCEPT ![r] = TRUE]
    /\ UNCHANGED <<osRename, lock, file, data, read>>

Unlock(r) ==
    /\ pc[r] = "unlocking"
    /\ lock' = NoRun
    /\ pc' = [pc EXCEPT ![r] = "out"]
    /\ data' = [data EXCEPT ![r] = Empty]
    /\ closing' = [closing EXCEPT ![r] = FALSE]
    /\ read' = [read EXCEPT ![r] = NoFile]
    /\ UNCHANGED <<osRename, file, temp>>

(* The process is killed, or ends without running the destructor.          *)
Kill(r) ==
    /\ pc[r] # "out"
    /\ lock' = IF lock = r THEN NoRun ELSE lock
    /\ pc' = [pc EXCEPT ![r] = "out"]
    /\ data' = [data EXCEPT ![r] = Empty]
    /\ temp' = [temp EXCEPT ![r] = NoFile]
    /\ closing' = [closing EXCEPT ![r] = FALSE]
    /\ read' = [read EXCEPT ![r] = NoFile]
    /\ UNCHANGED <<osRename, file>>

Construct(r) == Lock(r) \/ LockTimeout(r) \/ Load(r) \/ Flush(r) \/ LoadFails(r)

Change(r) == Clear(r) \/ \E j \in Names, m \in Md5s : Set(r, j, m)

Write(r) ==
    WriteTemp(r) \/ Rename(r) \/ RenameFails(r) \/ RemoveOld(r) \/ SaveFails(r)

Next ==
    \E r \in Runs :
        \/ Start(r)
        \/ Construct(r)
        \/ Change(r)
        \/ Save(r)
        \/ Del(r)
        \/ Write(r)
        \/ Unlock(r)
        \/ Kill(r)

(* A process that was started goes on.  A command changes and saves its    *)
(* cache a finite number of times, so that its destructor comes to run.    *)
Fairness ==
    \A r \in Runs :
        /\ WF_vars(Construct(r))
        /\ WF_vars(Write(r))
        /\ WF_vars(Unlock(r))
        /\ SF_vars(Del(r))

Spec == Init /\ [][Next]_vars

FairSpec == Spec /\ Fairness

-----------------------------------------------------------------------------
(* Type invariant of the JobCache objects and of the files.                *)
TypeOK ==
    /\ osRename \in RenameKinds
    /\ lock \in Runs \cup {NoRun}
    /\ file \in Snapshot \cup {NoFile, Partial}
    /\ pc \in [Runs -> Holding \cup {"out", "locking"}]
    /\ data \in [Runs -> Snapshot]
    /\ temp \in [Runs -> Snapshot \cup {NoFile, Partial}]
    /\ closing \in [Runs -> BOOLEAN]
    /\ read \in [Runs -> Snapshot \cup {NoFile, Partial}]

(* Two processes never hold the cache at once, through kills, timeouts and *)
(* failed constructors, and the lock is never left to a process that is    *)
(* gone (cache.py:51-56, 70-74, 134-145).                                  *)
OneHolder ==
    /\ \A r, s \in Runs : pc[r] \in Holding /\ pc[s] \in Holding => r = s
    /\ lock # NoRun => pc[lock] \in Holding

(* Between a process's load and its last save nobody else changes the      *)
(* file: what it writes back never undoes another process's entries        *)
(* (read-modify-write under the lock, cache.py:52-62, 112-145).            *)
NoLostUpdate ==
    \A r \in Runs :
        pc[r] \in Holding \ {"loading", "unlocking"} => read[r] = file

(* The cache file is never a torn one, whenever the process is killed      *)
(* ("to avoid issues around corruption such the process be killed",        *)
(* cache.py:114-130): a later load always finds a whole mapping.           *)
FileIsWhole == file # Partial

(* The cache file vanishes only after a rename was refused, so never where *)
(* renames replace; and whoever removes it holds the lock and has all that *)
(* it wants to keep in a temporary file written to its end: a kill, a      *)
(* failed removal or a second failed rename may lose the cache, and        *)
(* nothing else does (cache.py:124-130).                                   *)
FileStays ==
    [][file # NoFile /\ file' = NoFile =>
        /\ osRename # "replaces"
        /\ \E r \in Runs : lock = r /\ temp'[r] = data[r]]_vars

(* Whoever starts comes to an end: it gets the lock or times out on it,    *)
(* and nobody keeps the lock for ever (cache.py:65-74).                    *)
EveryRunEnds == \A r \in Runs : pc[r] = "locking" ~> pc[r] = "out"

(* The files and the lock implement the store of CacheStore.               *)
Store == INSTANCE CacheStore WITH
    store <- IF file = NoFile THEN Empty ELSE file,
    owner <- lock,
    view <- IF lock = NoRun THEN Empty ELSE data[lock],
    mayForget <- (osRename # "replaces")
ImplementsStore == Store!StoreSpec
=============================================================================
