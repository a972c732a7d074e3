--------------------------- MODULE JenkinsManager ---------------------------
(***************************************************************************)
(* jenkins_jobs/builder.py and the commands that drive it: the update,     *)
(* delete and delete-all commands of one user, one after the other (the    *)
(* lock of JobCache lets no two of them run at once).                      *)
(*                                                                         *)
(* A command loads the cache of MD5 sums, works through an agenda of calls *)
(* of the JenkinsManager, and leaves the cache to its destructor.  Uploads *)
(* are handed to the workers of the @concurrent decorator: they start in   *)
(* the order of the list, at most so many at once, end in any order, and   *)
(* their results are read in the order of the list (ConcurrentMap).        *)
(*                                                                         *)
(* A configuration stands for its XML and for the MD5 of that XML.  Saving *)
(* the cache is one step here, two when the old file is removed before it; *)
(* JobCache models what is inside them.                                    *)
(***************************************************************************)
EXTENDS Jenkins, Naturals, Sequences, FiniteSets

CONSTANTS
    Rank,        \* the place of a name in the order of AlphanumSort
    Managed,     \* configurations whose description ends in the magic string
    Disabled,    \* job configurations with <disabled>true</disabled>
    NotDefined,  \* the definitions make no item of that name
    Blank,       \* the "" that delete leaves in the cache
    NoEntry,     \* a name that is not in the cache
    Commands,    \* command lines, see CommandLine
    Definitions, \* what the YAML files may generate, per kind and name
    Changes,     \* <<c, d>>: a definition that made c may make d next
    Servers,     \* what the server may hold at first, per kind and name
    CpuCount,    \* multiprocessing.cpu_count()
    Faults       \* what may go wrong, see FaultKinds

(* "generate": the YAML does not generate, the plugin list can't be got or *)
(* the user does not confirm; "refused": a request raises and does         *)
(* nothing; "unreported": it is carried out and raises, as when the answer *)
(* is lost; "disk": a save of the cache fails; "rename": a rename over the *)
(* cache file raises, as always on Windows, so that a save removes the     *)
(* file first; "kill": the process dies.                                   *)
FaultKinds == {"generate", "refused", "unreported", "disk", "rename", "kill"}

Generated == [Kinds -> [Names -> Configs \cup {NotDefined}]]

(* names: the names on the command line, or those that match its globs;    *)
(* path: delete was given --path, so that names only filters.              *)
CommandLine ==
    [cmd : {"update", "delete", "delete_all"},
     kinds : {<<"job">>, <<"view">>, <<"job", "view">>},
     names : SUBSET Names,
     path : BOOLEAN,
     existing_only : BOOLEAN, enabled_only : BOOLEAN, delete_old : BOOLEAN,
     ignore_cache : BOOLEAN, flush_cache : BOOLEAN,
     n_workers : Nat]

ASSUME JenkinsManagerAssumption ==
    /\ Rank \in [Names -> Nat]
    /\ \A n, m \in Names : Rank[n] = Rank[m] => n = m
    /\ Managed \subseteq Configs /\ Disabled \subseteq Configs
    /\ NotDefined \notin Configs \cup Names
    /\ Blank \notin Configs
    /\ NoEntry \notin Configs \cup {Blank}
    /\ Commands \subseteq CommandLine /\ Commands # {}
    /\ Definitions \subseteq Generated
    /\ Servers \subseteq [Kinds -> Items]
    /\ CpuCount \in Nat \ {0}
    /\ Faults \subseteq FaultKinds

VARIABLES
    server,  \* server[k]: the items of kind k on the Jenkins server
    disk,    \* the content of the cache file
    cache,   \* self.cache.data
    at,      \* where the command is
    run,     \* the command line, the last one when at = "idle"
    defs,    \* what its definitions generate
    agenda,  \* the calls of the JenkinsManager still to make, with their kind
    tasks,   \* tasks[n]: the upload of n, "none" if it is not to be updated
    left,    \* the names delete_old, delete or delete-all has yet to look at
    listed,  \* _job_list and _view_list, or NoList
    result,  \* how the last command ended
    repeat,  \* history: the command is the last one again, which went well
    sent     \* history: sent[n]: the configurations the server took for n

vars == <<server, disk, cache, at, run, defs, agenda, tasks, left,
          listed, result, repeat, sent>>

Empty == [n \in Names |-> NoEntry]
NoTasks == [n \in Names |-> "none"]
Nothing == [k \in Kinds |-> [n \in Names |-> NotDefined]]

(* _job_list or _view_list before it is asked for: no set of names.        *)
NoList == {NotDefined}
Unlisted == [k \in Kinds |-> NoList]

kind == Head(agenda).kind
Calling(call) == at = "call" /\ agenda # <<>> /\ Head(agenda).call = call

(* The call is over; after the last one the command returns.               *)
MoveOn ==
    /\ agenda' = Tail(agenda)
    /\ at' = IF Len(agenda) = 1 THEN "exit" ELSE "call"
    /\ result' = IF Len(agenda) = 1 THEN "ok" ELSE result

(* An exception nobody catches.                                            *)
Fail ==
    /\ at' = "exit"
    /\ agenda' = <<>>
    /\ result' = "failed"

Each(call, kinds) == [i \in 1..Len(kinds) |-> [call |-> call, kind |-> kinds[i]]]

(* The execute methods of the three commands.                              *)
Agenda(r) ==
    Each(r.cmd, r.kinds)
      \o (IF r.cmd = "update" /\ r.delete_old THEN Each("delete_old", r.kinds) ELSE <<>>)

-----------------------------------------------------------------------------
Init ==
    /\ server \in Servers
    /\ disk = Empty
    /\ cache = Empty
    /\ at = "idle"
    /\ run \in Commands
    /\ defs = Nothing
    /\ agenda = <<>>
    /\ tasks = NoTasks
    /\ left = {}
    /\ listed = Unlisted
    /\ result = "none"
    /\ repeat = FALSE
    /\ sent = [n \in Names |-> {}]

UsesDefinitions(c) == c.cmd = "update" \/ (c.cmd = "delete" /\ c.path)

MayFollow(d) ==
    \A k \in Kinds, n \in Names : <<defs[k][n], d[k][n]>> \in Changes

(* A user edits the definitions and starts a command, which gets the lock. *)
Begin(c, d) ==
    /\ at = "idle"
    /\ IF UsesDefinitions(c) THEN MayFollow(d) ELSE d = defs
    /\ at' = "loading"
    /\ run' = c
    /\ defs' = d
    /\ repeat' = (result = "ok" /\ c = run /\ d = defs)
    /\ UNCHANGED <<server, disk, cache, agenda, tasks, left, listed,
                   result, sent>>

(* JobCache.__init__ of the new JenkinsManager.                            *)
LoadCache ==
    /\ at = "loading"
    /\ cache' = IF run.flush_cache THEN Empty ELSE disk
    /\ at' = "generate"
    /\ UNCHANGED <<server, disk, run, defs, agenda, tasks, left, listed,
                   result, repeat, sent>>

Generate ==
    /\ at = "generate"
    /\ \/ agenda' = Agenda(run) /\ at' = "call" /\ UNCHANGED result
       \/ "generate" \in Faults /\ Fail
    /\ UNCHANGED <<server, disk, cache, run, defs, tasks, left, listed,
                   repeat, sent>>

-----------------------------------------------------------------------------
(* The items update hands to the JenkinsManager: those the globs match,    *)
(* and with --enabled-only no disabled job.                                *)
Wanted(k) ==
    {n \in run.names :
        /\ defs[k][n] # NotDefined
        /\ run.enabled_only /\ k = "job" => defs[k][n] \notin Disabled}

(* Mutant of Changed: is_cached in the place of has_changed.               *)
ChangedIfNew(k, n) == run.ignore_cache \/ cache[n] = NoEntry

(* changed(item), with has_changed of the cache.                           *)
Changed(k, n) == run.ignore_cache \/ cache[n] # defs[k][n]

(* exists(item), for jobs and for views.                                   *)
JobExists(n) == server["job"][n] # Absent

(* Mutant of ToUpdate: no look at what exists.                             *)
ToUpdateAll(k) == {n \in Wanted(k) : Changed(k, n)}

ToUpdate(k) ==
    {n \in Wanted(k) : Changed(k, n) /\ (run.existing_only => JobExists(n))}

(* The first half of update_jobs and of update_views.                      *)
Filter ==
    /\ Calling("update")
    /\ IF ToUpdate(kind) = {}
       THEN MoveOn /\ UNCHANGED tasks
       ELSE /\ tasks' = [n \in Names |->
                            IF n \in ToUpdate(kind) THEN "queued" ELSE "none"]
            /\ at' = "upload"
            /\ UNCHANGED <<agenda, result>>
    /\ UNCHANGED <<server, disk, cache, run, defs, left, listed, repeat, sent>>

FilterFails ==
    /\ Calling("update")
    /\ "refused" \in Faults
    /\ run.existing_only
    /\ Fail
    /\ UNCHANGED <<server, disk, cache, run, defs, tasks, left, listed,
                   repeat, sent>>

Workers == IF run.n_workers = 0 THEN CpuCount ELSE run.n_workers

InFlight == {n \in Names : tasks[n] \in {"create", "reconfig"}}

(* The lists of items keep the order of xml_jobs.sort(key=AlphanumSort).   *)
IsFirst(n, ns) == n \in ns /\ \A m \in ns : Rank[n] <= Rank[m]

(* is_job and is_view: the list, asked for once, then the server.          *)
Lists(k) ==
    listed' = [listed EXCEPT ![k] = IF @ = NoList THEN Existing(server[k]) ELSE @]
IsListed(k, n) == n \in listed'[k] \/ server[k][n] # Absent

(* A worker takes the next item and asks whether it exists.                *)
Decide(n) ==
    /\ at = "upload"
    /\ IsFirst(n, {m \in Names : tasks[m] = "queued"})
    /\ Cardinality(InFlight) < Workers
    /\ \/ /\ Lists(kind)
          /\ tasks' = [tasks EXCEPT ![n] =
                          IF IsListed(kind, n) THEN "reconfig" ELSE "create"]
       \/ /\ "refused" \in Faults
          /\ tasks' = [tasks EXCEPT ![n] = "failed"]
          /\ UNCHANGED listed
    /\ UNCHANGED <<server, disk, cache, at, run, defs, agenda, left,
                   result, repeat, sent>>

Takes(n) ==
    IF tasks[n] = "create" THEN CanCreate(server[kind], kind, n)
                           ELSE server[kind][n] # Absent

(* The upload itself: update_job and update_view.                          *)
Upload(n) ==
    /\ at = "upload"
    /\ n \in InFlight
    /\ Takes(n)
    /\ server' = [server EXCEPT ![kind] = Put(@, n, defs[kind][n])]
    /\ sent' = [sent EXCEPT ![n] = @ \cup {defs[kind][n]}]
    /\ \/ tasks' = [tasks EXCEPT ![n] = "done"]
       \/ "unreported" \in Faults /\ tasks' = [tasks EXCEPT ![n] = "failed"]
    /\ UNCHANGED <<disk, cache, at, run, defs, agenda, left, listed,
                   result, repeat>>

UploadFails(n) ==
    /\ at = "upload"
    /\ n \in InFlight
    /\ ~Takes(n) \/ "refused" \in Faults
    /\ tasks' = [tasks EXCEPT ![n] = "failed"]
    /\ UNCHANGED <<server, disk, cache, at, run, defs, agenda, left,
                   listed, result, repeat, sent>>

(* Mutant of Collect: an exception in a worker leaves no result.           *)
CollectDone ==
    /\ at = "upload"
    /\ \A n \in Names : tasks[n] \in {"none", "done"}
    /\ at' = "record"
    /\ UNCHANGED <<server, disk, cache, run, defs, agenda, tasks, left,
                   listed, result, repeat, sent>>

(* All workers are through and the results are sorted.                     *)
Collect ==
    /\ at = "upload"
    /\ \A n \in Names : tasks[n] \in {"none", "done", "failed"}
    /\ at' = "record"
    /\ UNCHANGED <<server, disk, cache, run, defs, agenda, tasks, left,
                   listed, result, repeat, sent>>

(* The results that were not looked at.                                    *)
Unread == {n \in Names : tasks[n] # "none"}

(* Mutant of Record: nothing is recorded.                                  *)
RecordNothing(n) ==
    /\ at = "record"
    /\ IsFirst(n, Unread)
    /\ tasks' = [tasks EXCEPT ![n] = "none"]
    /\ IF tasks[n] = "done" THEN UNCHANGED <<at, agenda, result>> ELSE Fail
    /\ UNCHANGED <<server, disk, cache, run, defs, left, listed, repeat, sent>>

(* Mutant of Record: the entry is set before the result is looked at.      *)
RecordFirst(n) ==
    /\ at = "record"
    /\ IsFirst(n, Unread)
    /\ tasks' = [tasks EXCEPT ![n] = "none"]
    /\ cache' = [cache EXCEPT ![n] = defs[kind][n]]
    /\ IF tasks[n] = "done" THEN UNCHANGED <<at, agenda, result>> ELSE Fail
    /\ UNCHANGED <<server, disk, run, defs, left, listed, repeat, sent>>

(* Mutant of Record: the file is changed with every entry.                 *)
RecordOnDisk(n) ==
    /\ at = "record"
    /\ IsFirst(n, Unread)
    /\ tasks' = [tasks EXCEPT ![n] = "none"]
    /\ IF tasks[n] = "done"
       THEN /\ cache' = [cache EXCEPT ![n] = defs[kind][n]]
            /\ disk' = cache'
            /\ UNCHANGED <<at, agenda, result>>
       ELSE Fail /\ UNCHANGED <<cache, disk>>
    /\ UNCHANGED <<server, run, defs, left, listed, repeat, sent>>

(* `for result in results': the first exception is raised, and what comes  *)
(* after it is not looked at.                                              *)
Record(n) ==
    /\ at = "record"
    /\ IsFirst(n, Unread)
    /\ tasks' = [tasks EXCEPT ![n] = "none"]
    /\ IF tasks[n] = "done"
       THEN /\ cache' = [cache EXCEPT ![n] = defs[kind][n]]
            /\ UNCHANGED <<at, agenda, result>>
       ELSE Fail /\ UNCHANGED cache
    /\ UNCHANGED <<server, disk, run, defs, left, listed, repeat, sent>>

(* self.cache.save() at the end of update_jobs and update_views.           *)
SaveUpdated ==
    /\ at = "record"
    /\ Unread = {}
    /\ \/ disk' = cache /\ MoveOn
       \/ "disk" \in Faults /\ Fail /\ UNCHANGED disk
    /\ UNCHANGED <<server, cache, run, defs, tasks, left, listed, repeat, sent>>

Update ==
    \/ Filter
    \/ FilterFails
    \/ \E n \in Names : Decide(n) \/ Upload(n) \/ UploadFails(n) \/ Record(n)
    \/ Collect
    \/ SaveUpdated

update_jobs == agenda # <<>> /\ kind = "job" /\ Update
update_views == agenda # <<>> /\ kind = "view" /\ Update

-----------------------------------------------------------------------------
(* A request that deletes may be refused, or carried out and not reported. *)
RemoveRequest(k, n) ==
    \/ /\ server' = [server EXCEPT ![k] = Remove(@, k, n)]
       /\ UNCHANGED <<at, agenda, result>>
    \/ /\ "unreported" \in Faults
       /\ server' = [server EXCEPT ![k] = Remove(@, k, n)]
       /\ Fail
    \/ "refused" \in Faults /\ Fail /\ UNCHANGED server

(* A name of the list the call has not looked at, a folder before what is  *)
(* in it (get_all_jobs lists the jobs depth by depth).                     *)
NextLeft(n) == n \in left /\ Inside[n] \cap left = {}

(* get_jobs and get_views: the list of the server, or the one at hand.     *)
ListLeft(ns) ==
    /\ \/ left' = ns /\ at' = "deleting" /\ UNCHANGED <<agenda, result>>
       \/ "refused" \in Faults /\ Fail /\ UNCHANGED left
    /\ UNCHANGED <<server, disk, cache, run, defs, tasks, repeat, sent>>

(* delete_old_managed_jobs and delete_old_managed_views: what the server   *)
(* listed, which may be from before the uploads.                           *)
ListOld == Calling("delete_old") /\ Lists(kind) /\ ListLeft(listed'[kind])

(* Mutant of Obsolete: whoever made the item.                              *)
ObsoleteOfAnyone(k, n) ==
    /\ n \notin Wanted(k)
    /\ server[k][n] # Absent

(* is_managed_job and is_managed_view, after the live is_job and is_view.  *)
Obsolete(k, n) ==
    /\ n \notin Wanted(k)
    /\ server[k][n] \in Managed

(* Mutant of DeleteOld: the list is believed, is_job is not asked.         *)
DeleteOldOfList(n) ==
    /\ at = "deleting" /\ Head(agenda).call = "delete_old"
    /\ NextLeft(n)
    /\ left' = left \ {n}
    /\ CASE Obsolete(kind, n) -> RemoveRequest(kind, n)
         [] n \notin Wanted(kind) /\ server[kind][n] = Absent -> Fail /\ UNCHANGED server
         [] OTHER -> UNCHANGED <<server, at, agenda, result>>
    /\ UNCHANGED <<disk, cache, run, defs, tasks, listed, repeat, sent>>

DeleteOld(n) ==
    /\ at = "deleting" /\ Head(agenda).call = "delete_old"
    /\ NextLeft(n)
    /\ left' = left \ {n}
    /\ IF Obsolete(kind, n)
       THEN RemoveRequest(kind, n)
       ELSE /\ \/ UNCHANGED <<at, agenda, result>>
               \/ n \notin Wanted(kind) /\ "refused" \in Faults /\ Fail
            /\ UNCHANGED server
    /\ UNCHANGED <<disk, cache, run, defs, tasks, listed, repeat, sent>>

OldDeleted ==
    /\ at = "deleting" /\ Head(agenda).call = "delete_old"
    /\ left = {}
    /\ MoveOn
    /\ UNCHANGED <<server, disk, cache, run, defs, tasks, left, listed,
                   repeat, sent>>

DeleteOldManaged == ListOld \/ OldDeleted \/ \E n \in Names : DeleteOld(n)

delete_old_managed_jobs == agenda # <<>> /\ kind = "job" /\ DeleteOldManaged
delete_old_managed_views == agenda # <<>> /\ kind = "view" /\ DeleteOldManaged

-----------------------------------------------------------------------------
(* delete_jobs and delete_views.                                           *)
StartDelete ==
    /\ Calling("delete")
    /\ left' = IF run.path THEN {n \in run.names : defs[kind][n] # NotDefined}
                           ELSE run.names
    /\ at' = "deleting"
    /\ UNCHANGED <<server, disk, cache, run, defs, agenda, tasks, listed,
                   result, repeat, sent>>

(* Mutant of Delete: the entry of the cache stays.                         *)
DeleteKeepsEntry(n) ==
    /\ at = "deleting" /\ Head(agenda).call = "delete"
    /\ n \in left
    /\ left' = left \ {n}
    /\ Lists(kind)
    /\ IF server[kind][n] # Absent
       THEN RemoveRequest(kind, n)
       ELSE UNCHANGED <<server, at, agenda, result>>
    /\ UNCHANGED <<disk, cache, run, defs, tasks, repeat, sent>>

(* Mutant of Delete: the entry is set to None, which is no digest.         *)
DeleteSetsNone(n) ==
    /\ at = "deleting" /\ Head(agenda).call = "delete"
    /\ n \in left
    /\ left' = left \ {n}
    /\ Lists(kind)
    /\ IF IsListed(kind, n)
       THEN RemoveRequest(kind, n)
       ELSE UNCHANGED <<server, at, agenda, result>>
    /\ cache' = [cache EXCEPT ![n] = IF @ # NoEntry THEN NotDefined ELSE @]
    /\ UNCHANGED <<disk, run, defs, tasks, repeat, sent>>

(* delete_job or delete_view, then the entry both kinds share.  The list,  *)
(* is_job or is_view may be refused, whether the item is there or not.     *)
Delete(n) ==
    /\ at = "deleting" /\ Head(agenda).call = "delete"
    /\ n \in left
    /\ left' = left \ {n}
    /\ \/ /\ Lists(kind)
          /\ IF IsListed(kind, n)
             THEN IF server[kind][n] # Absent
                  THEN RemoveRequest(kind, n)
                  ELSE Fail /\ UNCHANGED server
             ELSE UNCHANGED <<server, at, agenda, result>>
       \/ "refused" \in Faults /\ Fail /\ UNCHANGED <<server, listed>>
    /\ cache' = [cache EXCEPT ![n] = IF @ # NoEntry /\ at' = "deleting" THEN Blank ELSE @]
    /\ UNCHANGED <<disk, run, defs, tasks, repeat, sent>>

SaveDeleted ==
    /\ at = "deleting" /\ Head(agenda).call = "delete"
    /\ left = {}
    /\ \/ disk' = cache /\ MoveOn
       \/ "disk" \in Faults /\ Fail /\ UNCHANGED disk
    /\ UNCHANGED <<server, cache, run, defs, tasks, left, listed, repeat, sent>>

DeleteNamed == StartDelete \/ SaveDeleted \/ \E n \in Names : Delete(n)

delete_jobs == agenda # <<>> /\ kind = "job" /\ DeleteNamed
delete_views == agenda # <<>> /\ kind = "view" /\ DeleteNamed

-----------------------------------------------------------------------------
(* delete_all_jobs.                                                        *)
delete_all_jobs ==
    /\ Calling("delete_all")
    /\ kind = "job"
    /\ Lists(kind)
    /\ \/ server' = [server EXCEPT !["job"] = RemoveAll] /\ cache' = Empty /\ MoveOn
       \/ /\ "unreported" \in Faults
          /\ server' = [server EXCEPT !["job"] = RemoveAll]
          /\ Fail
          /\ UNCHANGED cache
       \/ "refused" \in Faults /\ Fail /\ UNCHANGED <<server, cache>>
    /\ UNCHANGED <<disk, run, defs, tasks, left, repeat, sent>>

(* delete_all_views: views.pop(0) spares the view the server lists first,  *)
(* one of these or one that is none of JJB's names.                        *)
ListViews ==
    /\ Calling("delete_all")
    /\ kind = "view"
    /\ Lists(kind)
    /\ \E first \in Names \cup {NotDefined} : ListLeft(listed'[kind] \ {first})

DeleteView(n) ==
    /\ at = "deleting" /\ Head(agenda).call = "delete_all"
    /\ n \in left
    /\ left' = left \ {n}
    /\ RemoveRequest("view", n)
    /\ UNCHANGED <<disk, cache, run, defs, tasks, listed, repeat, sent>>

ViewsDeleted ==
    /\ at = "deleting" /\ Head(agenda).call = "delete_all"
    /\ left = {}
    /\ cache' = Empty
    /\ MoveOn
    /\ UNCHANGED <<server, disk, run, defs, tasks, left, listed, repeat, sent>>

delete_all_views == ListViews \/ ViewsDeleted \/ \E n \in Names : DeleteView(n)

-----------------------------------------------------------------------------
(* The destructor of the cache: the last save, whose failure is logged.    *)
Exit ==
    /\ at = "exit"
    /\ disk' = cache \/ ("disk" \in Faults /\ UNCHANGED disk)
    /\ at' = "unlock"
    /\ UNCHANGED <<server, cache, run, defs, agenda, tasks, left, listed,
                   result, repeat, sent>>

(* A save is under way: at the end of an update or of a deletion by name,  *)
(* or the destructor's.                                                    *)
Saving ==
    \/ at = "record" /\ Unread = {}
    \/ at = "deleting" /\ Head(agenda).call = "delete" /\ left = {}
    \/ at = "exit"

(* The first rename of a save raises, and the cache file is removed; the   *)
(* save then ends, fails, or is killed.                                    *)
RemoveOldFile ==
    /\ "rename" \in Faults
    /\ Saving
    /\ disk' = Empty
    /\ UNCHANGED <<server, cache, at, run, defs, agenda, tasks, left, listed,
                   result, repeat, sent>>

Forgotten ==
    /\ at' = "idle"
    /\ cache' = Empty
    /\ agenda' = <<>>
    /\ tasks' = NoTasks
    /\ left' = {}
    /\ listed' = Unlisted

Unlock ==
    /\ at = "unlock"
    /\ Forgotten
    /\ UNCHANGED <<server, disk, run, defs, result, repeat, sent>>

Kill ==
    /\ "kill" \in Faults
    /\ at # "idle"
    /\ Forgotten
    /\ result' = "failed"
    /\ UNCHANGED <<server, disk, run, defs, repeat, sent>>

Call ==
    \/ update_jobs \/ update_views
    \/ delete_old_managed_jobs \/ delete_old_managed_views
    \/ delete_jobs \/ delete_views
    \/ delete_all_jobs \/ delete_all_views

Working == LoadCache \/ Generate \/ Call \/ Exit \/ Unlock

Next ==
    \/ \E c \in Commands, d \in Definitions : Begin(c, d)
    \/ Working
    \/ RemoveOldFile
    \/ Kill

Spec == Init /\ [][Next]_vars

(* A command that was started goes on to its end.                          *)
FairSpec == Spec /\ WF_vars(Working)

-----------------------------------------------------------------------------
(* Type invariant of the manager, its cache and the server.                *)
TypeOK ==
    /\ server \in [Kinds -> Items]
    /\ disk \in [Names -> Configs \cup {Blank, NoEntry}]
    /\ cache \in [Names -> Configs \cup {Blank, NoEntry}]
    /\ at \in {"idle", "loading", "generate", "call", "upload", "record",
               "deleting", "exit", "unlock"}
    /\ run \in Commands
    /\ defs \in Generated
    /\ agenda \in Seq([call : {"update", "delete_old", "delete", "delete_all"},
                       kind : Kinds])
    /\ tasks \in [Names -> {"none", "queued", "create", "reconfig", "done", "failed"}]
    /\ left \subseteq Names
    /\ listed \in [Kinds -> (SUBSET Names) \cup {NoList}]
    /\ result \in {"none", "ok", "failed"}
    /\ repeat \in BOOLEAN
    /\ sent \in [Names -> SUBSET Configs]

(* The cache records no upload that did not happen: whatever fails or is   *)
(* killed, a digest on the disk is one of a configuration the server took  *)
(* under that name (builder.py:331-346, cache.py:134-145).                 *)
CacheNeverInvents ==
    \A n \in Names : disk[n] \in Configs => disk[n] \in sent[n]

(* After an update that went well the server holds what the definitions    *)
(* generate, although only what the cache does not have was sent           *)
(* (builder.py:247-255, 312-349; execution.rst:191-195).                   *)
UpToDate ==
    at = "idle" /\ result = "ok" /\ run.cmd = "update" =>
        \A i \in 1..Len(run.kinds) :
            LET k == run.kinds[i] IN
            \A n \in Wanted(k) :
                \/ server[k][n] = defs[k][n]
                \/ run.existing_only /\ server[k][n] = Absent

(* What the cache says of a job or a view is what the server has           *)
(* (builder.py:227-245, 338-346, 420-438).                                 *)
CacheSound ==
    at = "idle" =>
        \A n \in Names :
            disk[n] \in Configs => \E k \in Kinds : server[k][n] = disk[n]

(* The same successful command again uploads nothing ("it will only update *)
(* the jobs configurations in Jenkins if the defined definitions have      *)
(* changed since the last time it was run", execution.rst:193-195).        *)
RepeatUploadsNothing ==
    repeat /\ at = "upload" => run.ignore_cache \/ run.flush_cache

(* --delete-old removes a job only if JJB managed it and does not generate *)
(* it any more (execution.rst:310-312; builder.py:202-225).                *)
OldOnlyObsolete ==
    [][run.cmd = "update" =>
        \A k \in Kinds, n \in Names :
            server[k][n] # Absent /\ server'[k][n] = Absent =>
                server[k][n] \in Managed /\ defs[k][n] = NotDefined]_vars

(* With --existing-only no job is created between the check and the upload *)
(* (builder.py:318-323).                                                   *)
ExistingOnlyCreatesNoJob ==
    [][run.existing_only =>
        \A n \in Names : server["job"][n] = Absent => server'["job"][n] = Absent]_vars

(* A command that meets no fault goes well: a folder is there before what  *)
(* is in it is created, and nothing is deleted twice (builder.py:274,      *)
(* 131-139, 207-225).                                                      *)
NeverFails == result # "failed"

(* Every command ends and leaves the cache to the next one.                *)
EveryCommandEnds == at # "idle" ~> at = "idle"

(* The manager uses the cache as CacheStore says a run does.               *)
Store == INSTANCE CacheStore WITH
    Runs <- {"jjb"},
    NoRun <- "none",
    Md5s <- Configs \cup {Blank},
    mayForget <- ("rename" \in Faults),
    store <- disk,
    owner <- IF at = "idle" THEN "none" ELSE "jjb",
    view <- cache
UsesStore == Store!StoreSpec

-----------------------------------------------------------------------------
(* Conditions under which those of the properties hold that do not hold    *)
(* for every command line and every set of definitions.                    *)

(* No name is that of a job and that of a view: they share an entry of the *)
(* cache.                                                                  *)
OneKindPerName ==
    \A d, e \in Definitions, n \in Names :
        d["job"][n] = NotDefined \/ e["view"][n] = NotDefined

(* --delete-old is given with all there is: an item that is filtered out   *)
(* counts as obsolete.                                                     *)
OldOfEverything ==
    \A c \in Commands :
        c.cmd = "update" /\ c.delete_old => c.names = Names /\ ~c.enabled_only

(* Who defines a job in a folder defines the folder.                       *)
FoldersAreDefined ==
    \A d \in Definitions, n \in Names :
        d["job"][n] # NotDefined =>
            \A g \in Inside[n] : d["job"][g] # NotDefined

(* In the folders there are no jobs but JJB's.                             *)
OnlyManagedInFolders ==
    \A n \in Names :
        Inside[n] # {} =>
            /\ \A s \in Servers : s["job"][n] \in Managed \cup {Absent}
            /\ \A d \in Definitions : d["job"][n] \in Managed \cup {NotDefined}

(* An update that uploads jobs in folders uploads the folders before: it   *)
(* does not trust the cache, leaves no folder out and has one worker.      *)
FoldersFirst ==
    \A c \in Commands :
        c.cmd = "update" /\ (\E n \in c.names : Inside[n] # {}) =>
            /\ c.ignore_cache \/ c.flush_cache
            /\ ~c.enabled_only
            /\ c.n_workers = 1 \/ (c.n_workers = 0 /\ CpuCount = 1)
            /\ \A n \in c.names : \A g \in Inside[n] :
                   /\ g \in c.names /\ Rank[g] < Rank[n]
                   /\ \A d \in Definitions :
                          d["job"][n] # NotDefined => d["job"][g] # NotDefined

(* No command deletes a folder and, after it, a job in it.                 *)
NothingDeletedTwice ==
    \A c \in Commands :
        c.cmd = "delete" => \A n \in c.names : Inside[n] \cap c.names = {}

(* A save is cut off before its file or after it, and loses no entry.      *)
RenamesReplace == "rename" \notin Faults

(* Nobody deletes a folder: what is in it would stay in the cache.         *)
FoldersStay ==
    \A c \in Commands :
        c.cmd = "delete" => \A n \in Names : Inside[n] \cap c.names = {}

(* Nobody gives --delete-old: what it deletes stays in the cache.          *)
NothingOldDeleted == \A c \in Commands : c.cmd = "update" => ~c.delete_old

(* --existing-only is not given for views: it looks at the jobs.           *)
ExistingOnlyForJobs ==
    \A c \in Commands : c.existing_only => c.kinds = <<"job">>

OnlyUpdates == \A c \in Commands : c.cmd = "update"

(* No definition makes again what it made before something else.           *)
Forward ==
    LET Versions == Configs \cup {NotDefined} IN
    \E Before \in SUBSET (Versions \X Versions) :
        /\ \A c \in Versions : <<c, c>> \in Before
        /\ \A c, d \in Versions :
               <<c, d>> \in Before /\ <<d, c>> \in Before => c = d
        /\ \A c, d, e \in Versions :
               <<c, d>> \in Before /\ <<d, e>> \in Before => <<c, e>> \in Before
        /\ \A c, d \in Versions : <<c, d>> \in Changes => <<c, d>> \in Before
=============================================================================
