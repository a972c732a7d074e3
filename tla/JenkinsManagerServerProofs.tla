--------------------- MODULE JenkinsManagerServerProofs ---------------------
(***************************************************************************)
(* What the server holds and the cache says of it, proved for the command  *)
(* lines and definitions JenkinsManager names the conditions of: commands  *)
(* that meet no fault do not fail, the cache is right about the server,    *)
(* and an update that went well leaves the server up to date.              *)
(***************************************************************************)
EXTENDS JenkinsManagerProofs, FiniteSetTheorems

(* What the lists say exists while they are relied on: until the last      *)
(* update, and for the names a deletion has yet to look at.                *)
ListsHold ==
    /\ at \in {"idle", "loading", "generate"} => listed = Unlisted
    /\ at \in Busy /\ Head(agenda).call = "update" =>
           \A k \in Kinds : listed[k] # NoList => listed[k] \subseteq Existing(server[k])
    /\ at \in Busy /\ run.cmd = "delete" =>
           \A i \in 1..Len(agenda) :
               at = "call" \/ i > 1 => listed[agenda[i].kind] = NoList
    /\ at = "deleting" /\ run.cmd = "delete" =>
           /\ left \subseteq run.names
           /\ listed[kind] # NoList => left \cap listed[kind] \subseteq Existing(server[kind])

(* What a worker found of the server when it took its item stays so until  *)
(* its upload, and no upload fails.                                        *)
UploadsSucceed ==
    /\ at = "upload" =>
           \A n \in Names :
               /\ tasks[n] # "failed"
               /\ tasks[n] = "create" => CanCreate(server[kind], kind, n)
               /\ tasks[n] \in {"reconfig", "done"} => server[kind][n] # Absent
    /\ at = "record" => \A n \in Names : tasks[n] \in {"none", "done"}

HasFolders == \E n \in run.names : Inside[n] # {}

(* A flushed cache is empty until the jobs were updated.                   *)
FlushedCache ==
    run.cmd = "update" /\ run.flush_cache /\
    (at = "generate" \/ (at = "call" /\ Pending("job"))) => cache = Empty

(* A folder is updated with what is in it, one item at a time.             *)
FoldersToo ==
    at = "upload" =>
        /\ \A n \in Names : tasks[n] # "none" => n \in run.names
        /\ HasFolders => InFlight = {} \/ \E n \in Names : InFlight = {n}
        /\ kind = "job" /\ ~run.existing_only =>
               \A n \in Names : tasks[n] # "none" => \A g \in Inside[n] : tasks[g] # "none"

(* Nothing goes wrong but that the definitions may not generate.           *)
NoServerFaults == Faults \subseteq {"generate"}

SmoothRun ==
    /\ ListsHold /\ UploadsSucceed /\ FlushedCache /\ FoldersToo
    /\ Faults = {} => NeverFails

-----------------------------------------------------------------------------
(* Whose call is the head of the agenda.                                   *)
LEMMA HeadOfAgenda ==
  ASSUME FullInv, agenda # <<>>, at \in Busy
  PROVE  /\ agenda \in Seq(Calls) /\ Len(agenda) \in Nat /\ Len(agenda) > 0
         /\ Head(agenda) = agenda[1]
         /\ Head(agenda).call \in {"update", "delete_old", "delete", "delete_all"}
         /\ kind = agenda[1].kind /\ kind \in Kinds
         /\ \A i \in 1..Len(agenda) : i > 1 => InOrder(agenda[1], agenda[i])
         /\ Head(agenda).call \in {"update", "delete_old"} => run.cmd = "update"
         /\ Head(agenda).call = "delete_old" => run.delete_old
         /\ Head(agenda).call \in {"delete", "delete_all"} => run.cmd = Head(agenda).call
  <1>1. agenda \in Seq(Calls) /\ Len(agenda) \in Nat /\ Len(agenda) > 0 /\ Head(agenda) = agenda[1]
    BY EmptySeq, LenProperties DEF FullInv, Inv, TypeOK, Calls
  <1>2. kind \in Kinds /\ Head(agenda).call \in {"update", "delete_old", "delete", "delete_all"}
    BY KindOfCall DEF FullInv, Inv, Calls
  <1>3. CallOf(run, agenda[1]) /\ \A i \in 1..Len(agenda) : i > 1 => InOrder(agenda[1], agenda[i])
    BY <1>1 DEF FullInv, AgendaOfRun, IsAgendaOf
  <1>4. run.cmd \in {"update", "delete", "delete_all"}
    BY JenkinsManagerAssumption DEF FullInv, Inv, TypeOK, JenkinsManagerAssumption, CommandLine
  <1>. QED
    BY <1>1, <1>2, <1>3, <1>4 DEF CallOf, kind

(* What the lists say goes on to hold when a call is over.                 *)
LEMMA ListsAfterCall ==
  ASSUME FullInv, ListsHold, agenda # <<>>, at \in Busy, MoveOn, UNCHANGED run,
         UNCHANGED <<server, listed>> \/ run.cmd = "delete_all" \/ Head(agenda).call = "delete_old"
  PROVE  ListsHold'
  <1>1. /\ IsAgendaOf(run, agenda') /\ at' \in {"exit", "call"}
        /\ at' = "call" => agenda' # <<>>
        /\ agenda' = Tail(agenda)
    BY AgendaShrinks, MoveOnType DEF FullInv, Inv, AgendaOfRun, MoveOn
  <1>2. /\ agenda' \in Seq(Calls) /\ Len(agenda') \in Nat
        /\ \A i \in 1..Len(agenda') : agenda'[i] = agenda[i + 1] /\ i + 1 \in 1..Len(agenda) /\ i + 1 > 1
    BY <1>1, HeadOfAgenda, HeadTailProperties
  <1>3. CASE at' = "call" /\ Head(agenda').call = "update"
    <2>1. Head(agenda') = agenda'[1] /\ 1 \in 1..Len(agenda')
      BY <1>1, <1>2, <1>3, EmptySeq
    <2>2. CallOf(run, agenda'[1]) /\ InOrder(agenda[1], agenda'[1])
      BY <1>1, <1>2, <2>1, HeadOfAgenda DEF IsAgendaOf
    <2>3. run.cmd = "update" /\ agenda[1].call # "delete_old"
      BY <1>3, <2>1, <2>2 DEF CallOf, InOrder
    <2>4. Head(agenda).call = "update"
      BY <2>3, HeadOfAgenda
    <2>. QED
      BY <1>1, <1>3, <2>3, <2>4 DEF ListsHold, Busy
  <1>4. CASE at' = "call" /\ Head(agenda').call # "update"
    <2>1. run.cmd = "delete" => Head(agenda).call = "delete"
      BY HeadOfAgenda
    <2>. QED
      BY <1>1, <1>2, <1>4, <2>1 DEF ListsHold, Busy
  <1>. QED
    BY <1>1, <1>3, <1>4 DEF ListsHold, Busy

(* The jobs come first: a call that is over was theirs or came after it.   *)
LEMMA FlushedAfterCall ==
  ASSUME FullInv, agenda # <<>>, at \in Busy, MoveOn, UNCHANGED run
  PROVE  FlushedCache'
  <1>1. /\ \A i \in 1..Len(agenda') : InOrder(Head(agenda), agenda'[i])
        /\ at' \in {"exit", "call"}
    BY AgendaShrinks DEF FullInv, Inv, AgendaOfRun
  <1>2. run.cmd = "update" => Head(agenda).call \in {"update", "delete_old"}
    BY HeadOfAgenda
  <1>3. ~(run.cmd = "update" /\ Pending("job")')
    BY <1>1, <1>2 DEF Pending, UpdateOf, InOrder
  <1>. QED
    BY <1>1, <1>3 DEF FlushedCache

(* A call that is over without a fault.                                    *)
LEMMA SmoothCallOver ==
  ASSUME FullInv, SmoothRun, agenda # <<>>, at \in Busy, MoveOn, UNCHANGED run,
         UNCHANGED <<server, listed>> \/ run.cmd = "delete_all" \/ Head(agenda).call = "delete_old"
  PROVE  SmoothRun'
  BY ListsAfterCall, FlushedAfterCall
     DEF SmoothRun, UploadsSucceed, FoldersToo, NeverFails, MoveOn

LEMMA SmoothFilter ==
  ASSUME FoldersFirst, FullInv, SmoothRun, Filter, agenda # <<>>
  PROVE  SmoothRun'
  <1>1. at = "call" /\ at \in Busy /\ Head(agenda).call = "update"
    BY DEF Filter, Calling, Busy
  <1>2. /\ run.cmd = "update" /\ run \in Commands /\ TypeOK /\ kind \in Kinds
        /\ Head(agenda) = UpdateOf(kind) /\ Pending(kind)
    BY <1>1, HeadOfAgenda, HeadOfUpdate DEF FullInv, Inv, TypeOK
  <1>3. CASE ToUpdate(kind) = {}
    BY <1>1, <1>3, SmoothCallOver DEF Filter
  <1>4. CASE ToUpdate(kind) # {}
    <2>1. /\ tasks' = [n \in Names |-> IF n \in ToUpdate(kind) THEN "queued" ELSE "none"]
          /\ at' = "upload"
          /\ UNCHANGED <<server, disk, cache, run, defs, left, listed, agenda, result>>
      BY <1>4 DEF Filter
    <2>2. kind' = kind
      BY <2>1 DEF kind
    <2>3. ListsHold'
      BY <1>1, <1>2, <2>1 DEF SmoothRun, ListsHold, Busy
    <2>4. UploadsSucceed' /\ FlushedCache' /\ (Faults = {} => NeverFails')
      BY <2>1 DEF UploadsSucceed, FlushedCache, NeverFails, SmoothRun
    <2>5. InFlight' = {}
      BY <2>1 DEF InFlight
    <2>6. \A n \in ToUpdate(kind) : n \in run.names /\ defs[kind][n] # NotDefined
      BY DEF ToUpdate, Wanted
    <2>7. ASSUME kind = "job", ~run.existing_only, NEW n \in ToUpdate("job"), NEW g \in Inside[n]
          PROVE  g \in ToUpdate("job")
      <3>1. n \in Names /\ g \in Names /\ Inside[n] # {}
        BY <1>2, <2>6, <2>7, JenkinsAssumption, WantedNames DEF ToUpdate, JenkinsAssumption
      <3>2. defs \in Definitions
        BY <2>6, <2>7, <3>1 DEF FullInv, DefsAreGiven, Nothing, Kinds
      <3>3. /\ run.ignore_cache \/ run.flush_cache
            /\ ~run.enabled_only /\ g \in run.names
            /\ defs["job"][g] # NotDefined
        BY <1>2, <2>6, <2>7, <3>1, <3>2 DEF FoldersFirst
      <3>4. defs["job"][g] \in Configs
        BY <1>2, <2>7, <3>1, <3>3 DEF TypeOK, Generated
      <3>5. run.flush_cache => cache[g] = NoEntry
        BY <1>1, <1>2, <2>7, <3>1 DEF SmoothRun, FlushedCache, Empty
      <3>6. Changed("job", g)
        BY <3>3, <3>4, <3>5, JenkinsManagerAssumption DEF Changed, JenkinsManagerAssumption
      <3>. QED
        BY <2>7, <3>3, <3>6 DEF ToUpdate, Wanted
    <2>8. FoldersToo'
      <3>1. \A n \in Names : tasks'[n] # "none" => n \in run'.names
        BY <2>1, <2>6
      <3>2. ASSUME kind = "job", ~run.existing_only, NEW n \in Names, tasks'[n] # "none", NEW g \in Inside[n]
            PROVE  tasks'[g] # "none"
        <4>1. g \in Names
          BY <3>2, JenkinsAssumption DEF JenkinsAssumption
        <4>. QED
          BY <2>1, <2>7, <3>2, <4>1
      <3>. QED
        BY <2>1, <2>2, <2>5, <3>1, <3>2 DEF FoldersToo
    <2>. QED
      BY <2>3, <2>4, <2>8 DEF SmoothRun
  <1>. QED
    BY <1>3, <1>4

LEMMA SmoothDecide ==
  ASSUME NoServerFaults, FoldersFirst, FullInv, SmoothRun, NEW n \in Names, Decide(n)
  PROVE  SmoothRun'
  <1>. USE DEF NoServerFaults
  <1>1. /\ at = "upload" /\ at \in Busy /\ Head(agenda).call = "update" /\ agenda # <<>>
        /\ IsFirst(n, {m \in Names : tasks[m] = "queued"})
        /\ Cardinality(InFlight) < Workers
        /\ Lists(kind)
        /\ tasks' = [tasks EXCEPT ![n] = IF IsListed(kind, n) THEN "reconfig" ELSE "create"]
        /\ UNCHANGED <<server, disk, cache, at, run, defs, agenda, left, result>>
    BY DEF Decide, Busy, FullInv, Inv, InCall, AgendaOfRun
  <1>2. /\ run.cmd = "update" /\ run \in Commands /\ TypeOK /\ kind \in Kinds /\ kind' = kind
        /\ tasks[n] = "queued" /\ tasks \in [Names -> States]
    BY <1>1, HeadOfAgenda DEF FullInv, Inv, TypeOK, kind, IsFirst, States
  <1>3. \A k \in Kinds : listed'[k] # NoList => listed'[k] \subseteq Existing(server[k])
    BY <1>1, <1>2 DEF Lists, SmoothRun, ListsHold, TypeOK
  <1>4. ListsHold'
    BY <1>1, <1>2, <1>3 DEF ListsHold, Busy
  <1>5. \A m \in Names : m # n => tasks'[m] = tasks[m]
    BY <1>1, <1>2
  <1>6. tasks'[n] \in {"create", "reconfig"}
    BY <1>1, <1>2
  <1>7. tasks'[n] = "reconfig" => server[kind][n] # Absent
    BY <1>1, <1>2, <1>3, JenkinsManagerAssumption
       DEF IsListed, Existing, NoList, JenkinsManagerAssumption
  <1>8. HasFolders => InFlight = {}
    <2>. SUFFICES ASSUME HasFolders, NEW x \in Names, InFlight = {x} PROVE FALSE
      BY <1>1 DEF SmoothRun, FoldersToo
    <2>1. Workers = 1
      BY <1>2 DEF FoldersFirst, HasFolders, Workers
    <2>2. Cardinality({x}) = 1
      BY FS_Singleton
    <2>. QED
      BY <1>1, <2>1, <2>2
  <1>9. ASSUME tasks'[n] = "create" PROVE CanCreate(server[kind], kind, n)
    <2>1. server[kind][n] = Absent
      BY <1>1, <1>2, <1>9 DEF IsListed
    <2>2. ASSUME kind = "job", NEW g \in Inside[n] PROVE g \in Existing(server["job"])
      <3>1. g \in Names /\ n \in run.names
        BY <1>1, <1>2, JenkinsAssumption DEF JenkinsAssumption, SmoothRun, FoldersToo
      <3>2. ~run.existing_only
        BY <1>1, <1>2, <2>1, <2>2 DEF FullInv, SeenJobsStay, JobExists
      <3>3. Rank[g] < Rank[n] /\ HasFolders
        BY <1>2, <2>2, <3>1 DEF FoldersFirst, HasFolders
      <3>4. tasks[g] # "none" /\ tasks[g] # "failed"
        BY <1>1, <1>2, <2>2, <3>1, <3>2 DEF SmoothRun, FoldersToo, UploadsSucceed
      <3>5. tasks[g] # "queued"
        <4>1. Rank[g] \in Nat /\ Rank[n] \in Nat
          BY <3>1, JenkinsManagerAssumption DEF JenkinsManagerAssumption
        <4>2. tasks[g] = "queued" => Rank[n] <= Rank[g]
          BY <1>1, <3>1 DEF IsFirst
        <4>. QED
          BY <3>3, <4>1, <4>2
      <3>6. tasks[g] \notin {"create", "reconfig"}
        BY <1>8, <3>1, <3>3 DEF InFlight
      <3>7. tasks[g] = "done"
        BY <1>2, <3>1, <3>4, <3>5, <3>6 DEF States
      <3>. QED
        BY <1>1, <2>2, <3>1, <3>7 DEF SmoothRun, UploadsSucceed, Existing
    <2>. QED
      BY <2>1, <2>2 DEF CanCreate
  <1>10. UploadsSucceed'
    BY <1>1, <1>2, <1>5, <1>6, <1>7, <1>9 DEF SmoothRun, UploadsSucceed
  <1>11. FoldersToo'
    <2>1. \A m \in Names : tasks'[m] # "none" <=> tasks[m] # "none"
      BY <1>2, <1>5, <1>6
    <2>2. HasFolders' => InFlight' = {n}
      BY <1>1, <1>5, <1>6, <1>8 DEF HasFolders, InFlight
    <2>. QED
      BY <1>1, <1>2, <2>1, <2>2, JenkinsAssumption
         DEF SmoothRun, FoldersToo, HasFolders, JenkinsAssumption
  <1>. QED
    BY <1>1, <1>4, <1>10, <1>11 DEF SmoothRun, FlushedCache, NeverFails

LEMMA SmoothUpload ==
  ASSUME NoServerFaults, FullInv, SmoothRun, NEW n \in Names, Upload(n)
  PROVE  SmoothRun'
  <1>. USE DEF NoServerFaults
  <1>1. /\ at = "upload" /\ at \in Busy /\ Head(agenda).call = "update" /\ agenda # <<>>
        /\ n \in InFlight
        /\ server' = [server EXCEPT ![kind] = [@ EXCEPT ![n] = defs[kind][n]]]
        /\ tasks' = [tasks EXCEPT ![n] = "done"]
        /\ UNCHANGED <<cache, at, run, defs, agenda, left, listed, result>>
    BY DEF Upload, Put, Busy, FullInv, Inv, InCall, AgendaOfRun
  <1>2. /\ run.cmd = "update" /\ TypeOK /\ kind \in Kinds /\ kind' = kind
        /\ tasks[n] # "none" /\ tasks \in [Names -> States] /\ server \in [Kinds -> Items]
    BY <1>1, HeadOfAgenda DEF FullInv, Inv, TypeOK, kind, InFlight, States
  <1>3. defs[kind][n] # Absent
    BY <1>1, <1>2, JenkinsAssumption DEF FullInv, Inv, TasksAreGenerated, JenkinsAssumption
  <1>4. /\ server'[kind][n] = defs[kind][n]
        /\ \A m \in Names : m # n => server'[kind][m] = server[kind][m]
        /\ \A k \in Kinds : k # kind => server'[k] = server[k]
    BY <1>1, <1>2 DEF Items
  <1>5. \A k \in Kinds : Existing(server[k]) \subseteq Existing(server'[k])
    BY <1>3, <1>4 DEF Existing
  <1>6. \A m \in Names : m # n => tasks'[m] = tasks[m]
    BY <1>1, <1>2
  <1>7. tasks'[n] = "done"
    BY <1>1, <1>2
  <1>8. ListsHold'
    BY <1>1, <1>2, <1>5 DEF SmoothRun, ListsHold, Busy
  <1>9. UploadsSucceed'
    <2>1. ASSUME NEW m \in Names, tasks'[m] = "create" PROVE CanCreate(server'[kind], kind, m)
      BY <1>1, <1>2, <1>4, <1>5, <1>6, <1>7, <2>1 DEF SmoothRun, UploadsSucceed, CanCreate, Kinds
    <2>2. ASSUME NEW m \in Names, tasks'[m] \in {"reconfig", "done"} PROVE server'[kind][m] # Absent
      BY <1>1, <1>3, <1>4, <1>6, <1>7, <2>2 DEF SmoothRun, UploadsSucceed
    <2>3. \A m \in Names : tasks'[m] # "failed"
      BY <1>1, <1>6, <1>7 DEF SmoothRun, UploadsSucceed
    <2>. QED
      BY <1>1, <1>2, <2>1, <2>2, <2>3 DEF UploadsSucceed
  <1>10. FoldersToo'
    <2>1. \A m \in Names : tasks'[m] # "none" <=> tasks[m] # "none"
      BY <1>2, <1>6, <1>7
    <2>2. InFlight' = InFlight \ {n}
      BY <1>6, <1>7 DEF InFlight
    <2>3. HasFolders' => InFlight' = {} \/ \E m \in Names : InFlight' = {m}
      BY <1>1, <2>2 DEF HasFolders, SmoothRun, FoldersToo
    <2>. QED
      BY <1>1, <1>2, <2>1, <2>3, JenkinsAssumption
         DEF SmoothRun, FoldersToo, HasFolders, JenkinsAssumption
  <1>. QED
    BY <1>1, <1>8, <1>9, <1>10 DEF SmoothRun, FlushedCache, NeverFails

LEMMA SmoothUpdate ==
  ASSUME NoServerFaults, FoldersFirst, FullInv, SmoothRun, agenda # <<>>, Update
  PROVE  SmoothRun'
  <1>. USE DEF NoServerFaults
  <1>1. CASE Filter
    BY <1>1, SmoothFilter
  <1>2. ASSUME NEW n \in Names, Decide(n) \/ Upload(n) PROVE SmoothRun'
    BY <1>2, SmoothDecide, SmoothUpload
  <1>3. ASSUME NEW n \in Names, UploadFails(n) PROVE FALSE
    BY <1>3 DEF UploadFails, InFlight, Takes, SmoothRun, UploadsSucceed
  <1>4. CASE Collect
    <2>1. /\ at = "upload" /\ at' = "record"
          /\ \A n \in Names : tasks[n] \in {"none", "done", "failed"}
          /\ UNCHANGED <<server, cache, run, defs, agenda, tasks, left, listed, result>>
      BY <1>4 DEF Collect
    <2>. QED
      BY <2>1 DEF SmoothRun, ListsHold, UploadsSucceed, FlushedCache, FoldersToo, NeverFails, Busy, kind
  <1>5. ASSUME NEW n \in Names, Record(n) PROVE SmoothRun'
    <2>1. at = "record" /\ tasks[n] = "done"
      BY <1>5 DEF Record, IsFirst, Unread, SmoothRun, UploadsSucceed
    <2>2. /\ tasks' = [tasks EXCEPT ![n] = "none"]
          /\ UNCHANGED <<server, at, run, defs, agenda, left, listed, result>>
      BY <1>5, <2>1 DEF Record
    <2>3. UploadsSucceed'
      BY <2>1, <2>2 DEF SmoothRun, UploadsSucceed, FullInv, Inv, TypeOK
    <2>. QED
      BY <2>1, <2>2, <2>3 DEF SmoothRun, ListsHold, FlushedCache, FoldersToo, NeverFails, Busy, kind
  <1>6. CASE SaveUpdated
    <2>1. at \in Busy /\ MoveOn /\ UNCHANGED <<run, server, listed>>
      BY <1>6 DEF SaveUpdated, Busy
    <2>. QED
      BY <2>1, SmoothCallOver
  <1>. QED
    BY <1>1, <1>2, <1>3, <1>4, <1>5, <1>6 DEF Update, FilterFails

LEMMA SmoothDeleteOld ==
  ASSUME NoServerFaults, FullInv, SmoothRun, agenda # <<>>, DeleteOldManaged
  PROVE  SmoothRun'
  <1>. USE DEF NoServerFaults
  <1>1. at \in Busy /\ Head(agenda).call = "delete_old"
    BY DEF DeleteOldManaged, ListOld, OldDeleted, DeleteOld, Calling, Busy
  <1>2. run.cmd = "update"
    BY <1>1, HeadOfAgenda
  <1>3. CASE OldDeleted
    BY <1>1, <1>3, SmoothCallOver DEF OldDeleted
  <1>4. CASE ListOld \/ \E n \in Names : DeleteOld(n)
    <2>1. at' = "deleting" /\ UNCHANGED <<agenda, result, run>>
      BY <1>4 DEF ListOld, ListLeft, DeleteOld, RemoveRequest
    <2>. QED
      BY <1>1, <1>2, <2>1
         DEF SmoothRun, ListsHold, UploadsSucceed, FlushedCache, FoldersToo, NeverFails, Busy
  <1>. QED
    BY <1>3, <1>4 DEF DeleteOldManaged

(* A deletion finds what the list told of, and goes on.                    *)
LEMMA DeleteGoesOn ==
  ASSUME NoServerFaults, FullInv, SmoothRun, NEW n \in Names, Delete(n)
  PROVE  /\ at = "deleting" /\ n \in left /\ left' = left \ {n} /\ left \subseteq run.names
         /\ agenda # <<>> /\ Head(agenda).call = "delete" /\ run.cmd = "delete" /\ kind \in Kinds
         /\ UNCHANGED <<at, agenda, result, run>>
         /\ \A k \in Kinds : k # kind => listed'[k] = listed[k]
         /\ left \cap listed'[kind] \subseteq Existing(server[kind])
         /\ UNCHANGED server \/ server' = [server EXCEPT ![kind] = Remove(@, kind, n)]
  <1>1. /\ at = "deleting" /\ at \in Busy /\ Head(agenda).call = "delete" /\ agenda # <<>>
        /\ n \in left /\ left' = left \ {n} /\ Lists(kind) /\ UNCHANGED run
    BY DEF Delete, Busy, FullInv, Inv, InCall, NoServerFaults
  <1>2. /\ run.cmd = "delete" /\ kind \in Kinds /\ left \subseteq run.names
        /\ listed \in [Kinds -> (SUBSET Names) \cup {NoList}] /\ left \subseteq Names
    BY <1>1, HeadOfAgenda DEF SmoothRun, ListsHold, FullInv, Inv, TypeOK
  <1>3. \A k \in Kinds : k # kind => listed'[k] = listed[k]
    BY <1>1, <1>2 DEF Lists
  <1>4. left \cap listed'[kind] \subseteq Existing(server[kind])
    <2>1. NoList \cap Names = {}
      BY JenkinsManagerAssumption DEF NoList, JenkinsManagerAssumption
    <2>. QED
      BY <1>1, <1>2, <2>1 DEF SmoothRun, ListsHold, Lists
  <1>5. ~(IsListed(kind, n) /\ server[kind][n] = Absent)
    BY <1>1, <1>4 DEF IsListed, Existing
  <1>6. /\ UNCHANGED <<at, agenda, result>>
        /\ UNCHANGED server \/ server' = [server EXCEPT ![kind] = Remove(@, kind, n)]
    BY <1>5 DEF Delete, RemoveRequest, NoServerFaults
  <1>. QED
    BY <1>1, <1>2, <1>3, <1>4, <1>6

LEMMA SmoothDelete ==
  ASSUME NoServerFaults, NothingDeletedTwice, FullInv, SmoothRun, agenda # <<>>, DeleteNamed
  PROVE  SmoothRun'
  <1>. USE DEF NoServerFaults
  <1>1. at \in Busy /\ Head(agenda).call = "delete"
    BY DEF DeleteNamed, StartDelete, SaveDeleted, Delete, Calling, Busy
  <1>2. /\ run.cmd = "delete" /\ run \in Commands /\ TypeOK /\ kind \in Kinds
        /\ Len(agenda) \in Nat /\ Len(agenda) > 0 /\ kind = agenda[1].kind
        /\ \A i \in 1..Len(agenda) : i > 1 => InOrder(agenda[1], agenda[i])
        /\ agenda[1].call = "delete" /\ agenda \in Seq(Calls)
    BY <1>1, HeadOfAgenda DEF FullInv, Inv, TypeOK
  <1>3. \A i \in 1..Len(agenda) : i > 1 => agenda[i].kind # kind
    <2>1. \A i \in 1..Len(agenda) : CallOf(run, agenda[i])
      BY <1>1 DEF FullInv, AgendaOfRun, IsAgendaOf
    <2>2. \A i \in 1..Len(agenda) : agenda[i].call = "delete"
      BY <1>2, <2>1 DEF CallOf
    <2>. QED
      BY <1>2, <2>2 DEF InOrder
  <1>4. CASE SaveDeleted
    <2>1. MoveOn /\ UNCHANGED <<run, server, listed>>
      BY <1>4 DEF SaveDeleted
    <2>. QED
      BY <1>1, <2>1, SmoothCallOver
  <1>5. ASSUME at' = "deleting", UNCHANGED <<agenda, result, run>>, left' \subseteq run.names,
               \A k \in Kinds : k # kind => listed'[k] = listed[k],
               listed'[kind] # NoList => left' \cap listed'[kind] \subseteq Existing(server'[kind])
        PROVE  SmoothRun'
    <2>1. \A i \in 1..Len(agenda) : i > 1 => agenda[i].kind \in Kinds /\ listed'[agenda[i].kind] = NoList
      <3>1. \A i \in 1..Len(agenda) : agenda[i] \in Calls
        BY <1>2, ElementOfSeq
      <3>. QED
        BY <1>1, <1>2, <1>3, <1>5, <3>1 DEF Calls, SmoothRun, ListsHold
    <2>. QED
      BY <1>1, <1>2, <1>5, <2>1
         DEF SmoothRun, ListsHold, UploadsSucceed, FlushedCache, FoldersToo, NeverFails, Busy, kind
  <1>6. CASE StartDelete
    <2>1. /\ at = "call" /\ at' = "deleting" /\ left' \subseteq run.names
          /\ UNCHANGED <<agenda, result, run, listed, server>>
      BY <1>6 DEF StartDelete, Calling
    <2>2. listed[kind] = NoList
      BY <1>1, <1>2, <2>1 DEF SmoothRun, ListsHold
    <2>. QED
      BY <1>5, <2>1, <2>2
  <1>7. ASSUME NEW n \in Names, Delete(n) PROVE SmoothRun'
    <2>1. /\ at = "deleting" /\ n \in left /\ left' = left \ {n} /\ left \subseteq run.names
          /\ UNCHANGED <<at, agenda, result, run>>
          /\ \A k \in Kinds : k # kind => listed'[k] = listed[k]
          /\ left \cap listed'[kind] \subseteq Existing(server[kind])
          /\ UNCHANGED server \/ server' = [server EXCEPT ![kind] = Remove(@, kind, n)]
      BY <1>7, DeleteGoesOn
    <2>2. server \in [Kinds -> Items]
      BY <1>2 DEF TypeOK
    <2>3. ASSUME NEW m \in left', m \in listed'[kind] PROVE m \in Existing(server'[kind])
      <3>1. m \in left /\ m # n /\ m \in Existing(server[kind]) /\ m \in Names
        BY <2>1, <2>3 DEF Existing
      <3>2. n \notin Inside[m]
        BY <1>2, <2>1, <3>1 DEF NothingDeletedTwice
      <3>3. server'[kind][m] = server[kind][m]
        BY <1>2, <2>1, <2>2, <3>1, <3>2 DEF Remove
      <3>. QED
        BY <3>1, <3>3 DEF Existing
    <2>. QED
      BY <1>5, <2>1, <2>3
  <1>. QED
    BY <1>4, <1>6, <1>7 DEF DeleteNamed

LEMMA SmoothDeleteAll ==
  ASSUME NoServerFaults, FullInv, SmoothRun, agenda # <<>>, delete_all_jobs \/ delete_all_views
  PROVE  SmoothRun'
  <1>. USE DEF NoServerFaults
  <1>1. at \in Busy /\ Head(agenda).call = "delete_all"
    BY DEF delete_all_jobs, delete_all_views, ListViews, ViewsDeleted, DeleteView, Calling, Busy
  <1>2. run.cmd = "delete_all"
    BY <1>1, HeadOfAgenda
  <1>3. CASE delete_all_jobs \/ ViewsDeleted
    <2>1. MoveOn /\ UNCHANGED run
      BY <1>3 DEF delete_all_jobs, ViewsDeleted
    <2>. QED
      BY <1>1, <1>2, <2>1, SmoothCallOver
  <1>4. CASE ListViews \/ \E n \in Names : DeleteView(n)
    <2>1. at' = "deleting" /\ UNCHANGED <<agenda, result, run>>
      BY <1>4 DEF ListViews, ListLeft, DeleteView, RemoveRequest
    <2>. QED
      BY <1>1, <1>2, <2>1
         DEF SmoothRun, ListsHold, UploadsSucceed, FlushedCache, FoldersToo, NeverFails, Busy
  <1>. QED
    BY <1>3, <1>4 DEF delete_all_views

LEMMA SmoothNext ==
  ASSUME NoServerFaults, FoldersFirst, NothingDeletedTwice, FullInv, SmoothRun, [Next]_vars
  PROVE  SmoothRun'
  <1>. USE DEF NoServerFaults
  <1>. USE DEF SmoothRun, ListsHold, UploadsSucceed, FlushedCache, FoldersToo, NeverFails, Busy
  <1>1. CASE UNCHANGED vars
    BY <1>1 DEF vars, kind, Pending, InFlight, HasFolders
  <1>2. CASE \E c \in Commands, d \in Definitions : Begin(c, d)
    BY <1>2 DEF Begin
  <1>3. CASE LoadCache
    BY <1>3 DEF LoadCache
  <1>4. CASE Generate /\ Fail
    BY <1>4 DEF Generate, Fail
  <1>5. CASE Generate /\ ~Fail
    <2>1. /\ at' = "call" /\ at = "generate" /\ UNCHANGED <<run, listed, result, cache>>
      BY <1>5 DEF Generate
    <2>2. listed = Unlisted
      BY <2>1
    <2>3. \A k \in Kinds : listed[k] = NoList
      BY <2>2 DEF Unlisted
    <2>4. \A i \in 1..Len(agenda') : agenda'[i].kind \in Kinds
      <3>1. agenda' \in Seq(Calls)
        BY InvNext DEF FullInv, Inv, TypeOK, Calls
      <3>2. \A i \in 1..Len(agenda') : agenda'[i] \in Calls
        BY <3>1, ElementOfSeq
      <3>. QED
        BY <3>2 DEF Calls
    <2>. QED
      BY <2>1, <2>3, <2>4
  <1>6. CASE Exit \/ Unlock
    BY <1>6 DEF Exit, Unlock, Forgotten
  <1>7. ~Kill /\ ~RemoveOldFile
    BY DEF Kill, RemoveOldFile
  <1>8. CASE /\ at \in Busy /\ agenda # <<>>
             /\ Update \/ DeleteOldManaged \/ DeleteNamed \/ delete_all_jobs \/ delete_all_views
    BY <1>8, SmoothUpdate, SmoothDeleteOld, SmoothDelete, SmoothDeleteAll
  <1>. QED
    BY <1>1, <1>2, <1>3, <1>4, <1>5, <1>6, <1>7, <1>8, StepCases DEF FullInv

LEMMA SmoothInvariant ==
  ASSUME NoServerFaults, FoldersFirst, NothingDeletedTwice PROVE Spec => []SmoothRun
  <1>1. Init => SmoothRun
    BY DEF Init, SmoothRun, ListsHold, UploadsSucceed, FlushedCache, FoldersToo, NeverFails, Busy
  <1>2. FullInv /\ SmoothRun /\ [Next]_vars => SmoothRun'
    BY SmoothNext
  <1>. QED
    BY <1>1, <1>2, FullInvariant, PTL DEF Spec

(* A command that meets no fault goes well (builder.py:131-139, 207-225,   *)
(* 274): with any number of workers, --delete-old, --existing-only and     *)
(* items JJB did not make; and with jobs in folders provided the folders   *)
(* are uploaded first and are not deleted before what is in them.          *)
THEOREM NothingFails ==
  ASSUME Faults = {}, FoldersFirst, NothingDeletedTwice
  PROVE  Spec => []NeverFails
  <1>1. SmoothRun => NeverFails
    BY DEF SmoothRun
  <1>2. Spec => []SmoothRun
    BY SmoothInvariant DEF NoServerFaults
  <1>. QED
    BY <1>1, <1>2, PTL

-----------------------------------------------------------------------------
(* A configuration is what the server has under the name: as a job or a    *)
(* view, and as the one that is defined if only one can be.                *)
Known(k, n) == \E d \in Definitions : d[k][n] # NotDefined

HeldByServer(c, n) ==
    /\ \E k \in Kinds : server[k][n] = c
    /\ OneKindPerName => \A k \in Kinds : Known(k, n) => server[k][n] = c

(* What is "done" is what the server has.                                  *)
DoneIsThere ==
    at \in {"upload", "record"} =>
        \A n \in Names : tasks[n] = "done" => server[kind][n] = defs[kind][n]

(* The cache, or between two commands the file, is right about the server, *)
(* but for what was uploaded and not recorded yet, and what delete-all is  *)
(* about to forget.                                                        *)
CacheIsRight ==
    /\ at \in {"idle", "loading", "unlock"} =>
           \A n \in Names : disk[n] \in Configs => HeldByServer(disk[n], n)
    /\ at \in {"generate", "call", "upload", "record", "exit"}
         \/ (at = "deleting" /\ run.cmd = "delete") =>
           \A n \in Names :
               \/ cache[n] \in Configs => HeldByServer(cache[n], n)
               \/ at \in {"upload", "record"} /\ tasks[n] = "done"

-----------------------------------------------------------------------------
(* An update has brought an item to the server, or left it out.            *)
Updated(k, n) ==
    \/ server[k][n] = defs[k][n]
    \/ run.existing_only /\ server[k][n] = Absent

(* What an update went through is up to date.                              *)
UpdatedSoFar ==
    run.cmd = "update" =>
        /\ at \in Busy =>
               \A k \in KindsOf(run) : Pending(k) \/ \A n \in Wanted(k) : Updated(k, n)
        /\ at \in {"upload", "record"} =>
               \A n \in Wanted(kind) : tasks[n] # "none" \/ Updated(kind, n)
        /\ at \in {"exit", "unlock", "idle"} /\ result = "ok" =>
               \A k \in KindsOf(run) : \A n \in Wanted(k) : Updated(k, n)

(* An item that is not uploaded since the cache has it is up to date.      *)
Trusted ==
    run.cmd = "update" /\ ~run.ignore_cache /\ Calling("update") =>
        \A n \in Wanted(kind) :
            cache[n] = defs[kind][n] => server[kind][n] = defs[kind][n]

(* What the server took for a name it took in the order the definitions    *)
(* made it, and it has one of these.                                       *)
SentInOrder(Before) ==
    \A k \in Kinds, n \in Names :
        Known(k, n) =>
            /\ sent[n] # {} => server[k][n] \in sent[n]
            /\ \A c \in sent[n] : <<c, server[k][n]>> \in Before /\ <<c, defs[k][n]>> \in Before

-----------------------------------------------------------------------------
(* The steps of the uploads.                                               *)
LEMMA UploadPhase ==
  ASSUME FullInv, [Next]_vars, at' \in {"upload", "record"}
  PROVE  /\ UNCHANGED <<run, defs, agenda>> /\ kind' = kind
         /\ \/ UNCHANGED vars \/ RemoveOldFile
            \/ /\ at \in Busy /\ agenda # <<>> /\ kind \in Kinds
               /\ \/ Filter /\ ToUpdate(kind) # {}
                  \/ \E n \in Names : Decide(n) \/ Upload(n) \/ UploadFails(n)
                  \/ \E n \in Names : Record(n) /\ tasks[n] = "done"
                  \/ Collect
  <1>1. CASE UNCHANGED vars
    BY <1>1 DEF vars, kind
  <1>2. CASE RemoveOldFile
    BY <1>2 DEF RemoveOldFile, kind
  <1>3. CASE at \in Busy /\ agenda # <<>> /\ kind \in Kinds
             /\ (Update \/ DeleteOldManaged \/ DeleteNamed \/ delete_all_jobs \/ delete_all_views)
    <2>1. UNCHANGED <<run, defs>> /\ Starts /\ UNCHANGED agenda
      <3>1. UNCHANGED <<run, defs>> /\ (Starts \/ MoveOn \/ Fail)
        BY <1>3, CallControl DEF FullInv
      <3>2. ~MoveOn /\ ~Fail
        BY DEF MoveOn, Fail
      <3>. QED
        BY <3>1, <3>2 DEF Starts
    <2>2. at = "call" \/ at = at' \/ at = "upload"
      BY <2>1 DEF Starts
    <2>3. Update
      <3>1. Head(agenda).call = "update"
        BY <2>1 DEF Starts, FullInv, AgendaOfRun
      <3>2. ~DeleteNamed /\ ~DeleteOldManaged /\ ~delete_all_jobs /\ ~delete_all_views
        BY <3>1 DEF DeleteNamed, StartDelete, Delete, SaveDeleted, delete_all_jobs,
                    delete_all_views, ListViews, DeleteView, ViewsDeleted, Calling,
                    DeleteOldManaged, ListOld, DeleteOld, OldDeleted
      <3>. QED
        BY <1>3, <3>2
    <2>4. ~FilterFails /\ ~SaveUpdated /\ (Filter => ToUpdate(kind) # {})
      BY DEF FilterFails, SaveUpdated, Filter, MoveOn, Fail
    <2>5. \A n \in Names : Record(n) => tasks[n] = "done"
      BY DEF Record, Fail
    <2>. QED
      BY <1>3, <2>1, <2>3, <2>4, <2>5 DEF Update, kind
  <1>. QED
    BY <1>1, <1>2, <1>3, StepCases
       DEF FullInv, Begin, LoadCache, Generate, Exit, Unlock, Kill, Forgotten, Fail

(* An upload puts what is generated in its place.                          *)
LEMMA UploadPuts ==
  ASSUME FullInv, NEW n \in Names, Upload(n)
  PROVE  /\ kind \in Kinds /\ defs \in Definitions /\ Known(kind, n) /\ run.cmd = "update"
         /\ defs[kind][n] \in Configs
         /\ server'[kind][n] = defs[kind][n]
         /\ \A k \in Kinds, m \in Names : k # kind \/ m # n => server'[k][m] = server[k][m]
         /\ \A m \in Names : m # n => tasks'[m] = tasks[m]
         /\ tasks'[n] \in {"done", "failed"} /\ tasks[n] # "none"
         /\ sent' = [sent EXCEPT ![n] = @ \cup {defs[kind][n]}]
         /\ UNCHANGED <<disk, cache, at, run, defs, agenda, result>>
  <1>1. /\ at = "upload" /\ at \in Busy /\ agenda # <<>> /\ tasks[n] # "none"
        /\ Head(agenda).call = "update"
    BY DEF Upload, InFlight, Busy, FullInv, Inv, InCall, AgendaOfRun
  <1>2. kind \in Kinds /\ run.cmd = "update"
    BY <1>1, HeadOfAgenda
  <1>3. defs[kind][n] \in Configs
    BY <1>1 DEF FullInv, Inv, TasksAreGenerated
  <1>4. defs \in Definitions /\ defs[kind][n] # NotDefined
    BY <1>2, <1>3, JenkinsManagerAssumption
       DEF FullInv, DefsAreGiven, Nothing, JenkinsManagerAssumption
  <1>5. /\ server' = [server EXCEPT ![kind] = [@ EXCEPT ![n] = defs[kind][n]]]
        /\ server \in [Kinds -> Items]
    BY DEF Upload, Put, FullInv, Inv, TypeOK
  <1>6. /\ server'[kind][n] = defs[kind][n]
        /\ \A k \in Kinds, m \in Names : k # kind \/ m # n => server'[k][m] = server[k][m]
    BY <1>2, <1>5 DEF Items
  <1>7. /\ \E t \in {"done", "failed"} : tasks' = [tasks EXCEPT ![n] = t]
        /\ sent' = [sent EXCEPT ![n] = @ \cup {defs[kind][n]}]
        /\ UNCHANGED <<disk, cache, at, run, defs, agenda, result>>
    BY DEF Upload
  <1>8. tasks \in [Names -> States]
    BY DEF FullInv, Inv, TypeOK, States
  <1>9. (\A m \in Names : m # n => tasks'[m] = tasks[m]) /\ tasks'[n] \in {"done", "failed"}
    BY <1>7, <1>8
  <1>. QED
    BY <1>1, <1>2, <1>3, <1>4, <1>6, <1>7, <1>9 DEF Known

LEMMA DoneNext == ASSUME FullInv, DoneIsThere, [Next]_vars PROVE DoneIsThere'
  <1>1. SUFFICES ASSUME at' \in {"upload", "record"} PROVE DoneIsThere'
    BY DEF DoneIsThere
  <1>2. UNCHANGED <<run, defs, agenda>> /\ kind' = kind /\ tasks \in [Names -> States]
    BY <1>1, UploadPhase DEF FullInv, Inv, TypeOK, States
  <1>3. CASE UNCHANGED vars
    BY <1>2, <1>3 DEF vars, DoneIsThere
  <1>4. CASE Filter /\ ToUpdate(kind) # {}
    BY <1>4 DEF Filter, DoneIsThere
  <1>5. ASSUME NEW n \in Names, Decide(n) \/ UploadFails(n) \/ (Record(n) /\ tasks[n] = "done")
        PROVE  DoneIsThere'
    <2>1. at \in {"upload", "record"} /\ UNCHANGED server
      BY <1>5 DEF Decide, UploadFails, Record
    <2>2. \A m \in Names : tasks'[m] = "done" => tasks[m] = "done"
      BY <1>2, <1>5 DEF Decide, UploadFails, Record
    <2>. QED
      BY <1>2, <2>1, <2>2 DEF DoneIsThere
  <1>6. ASSUME NEW n \in Names, Upload(n) PROVE DoneIsThere'
    <2>1. at = "upload"
      BY <1>6 DEF Upload
    <2>. QED
      BY <1>2, <1>6, <2>1, UploadPuts DEF DoneIsThere
  <1>7. CASE Collect
    BY <1>2, <1>7 DEF Collect, DoneIsThere
  <1>8. CASE RemoveOldFile
    BY <1>2, <1>8 DEF RemoveOldFile, DoneIsThere
  <1>. QED
    BY <1>1, <1>3, <1>4, <1>5, <1>6, <1>7, <1>8, UploadPhase

-----------------------------------------------------------------------------
(* What the cache says stays right in a step that leaves the server alone. *)
LEMMA HeldStays ==
  ASSUME NEW n \in Names, NEW c, HeldByServer(c, n),
         \A k \in Kinds : server'[k][n] = server[k][n]
  PROVE  HeldByServer(c, n)'
  BY DEF HeldByServer

LEMMA RightUpdate ==
  ASSUME NoServerFaults, FullInv, SmoothRun, DoneIsThere, CacheIsRight, agenda # <<>>, Update
  PROVE  CacheIsRight'
  <1>1. /\ cache \in [Names -> Configs \cup {Blank, NoEntry}] /\ tasks \in [Names -> States]
    BY DEF FullInv, Inv, TypeOK, States
  <1>2. CASE Filter
    <2>1. /\ at = "call" /\ at' \in {"call", "upload", "exit"} /\ UNCHANGED <<server, cache>>
      BY <1>2 DEF Filter, Calling, MoveOn
    <2>. QED
      BY <2>1, HeldStays DEF CacheIsRight
  <1>3. ASSUME NEW n \in Names, Decide(n) PROVE CacheIsRight'
    <2>1. at = "upload" /\ UNCHANGED <<at, server, cache>> /\ tasks[n] # "done"
      BY <1>3 DEF Decide, IsFirst
    <2>2. \A m \in Names : tasks[m] = "done" => tasks'[m] = "done"
      BY <1>1, <1>3, <2>1 DEF Decide
    <2>. QED
      BY <2>1, <2>2, HeldStays DEF CacheIsRight
  <1>4. ASSUME NEW n \in Names, Upload(n) PROVE CacheIsRight'
    <2>1. at = "upload" /\ tasks' = [tasks EXCEPT ![n] = "done"]
      BY <1>4 DEF Upload, NoServerFaults
    <2>2. tasks'[n] = "done"
      BY <1>1, <2>1
    <2>3. ASSUME NEW m \in Names, m # n, HeldByServer(cache[m], m) PROVE HeldByServer(cache[m], m)'
      BY <1>4, <2>3, UploadPuts, HeldStays
    <2>. QED
      BY <1>4, <2>1, <2>2, <2>3, UploadPuts DEF CacheIsRight
  <1>5. ASSUME NEW n \in Names, UploadFails(n) PROVE CacheIsRight'
    <2>1. at = "upload" /\ UNCHANGED <<at, server, cache>> /\ tasks[n] # "done"
      BY <1>5 DEF UploadFails, InFlight
    <2>2. \A m \in Names : tasks[m] = "done" => tasks'[m] = "done"
      BY <1>1, <1>5, <2>1 DEF UploadFails
    <2>. QED
      BY <2>1, <2>2, HeldStays DEF CacheIsRight
  <1>6. CASE Collect
    BY <1>6, HeldStays DEF Collect, CacheIsRight
  <1>7. ASSUME NEW n \in Names, Record(n) PROVE CacheIsRight'
    <2>1. /\ at = "record" /\ tasks[n] = "done" /\ at \in Busy
      BY <1>7 DEF Record, IsFirst, Unread, SmoothRun, UploadsSucceed, Busy
    <2>2. /\ cache' = [cache EXCEPT ![n] = defs[kind][n]]
          /\ tasks' = [tasks EXCEPT ![n] = "none"]
          /\ UNCHANGED <<at, server>>
      BY <1>7, <2>1 DEF Record
    <2>3. \A m \in Names : m # n => cache'[m] = cache[m] /\ tasks'[m] = tasks[m]
      BY <1>1, <2>2
    <2>4. HeldByServer(defs[kind][n], n)
      <3>1. kind \in Kinds /\ server[kind][n] = defs[kind][n]
        BY <2>1, HeadOfAgenda DEF DoneIsThere
      <3>2. defs[kind][n] # NotDefined /\ defs \in Definitions
        BY <2>1, <3>1, JenkinsManagerAssumption
           DEF FullInv, Inv, TasksAreGenerated, DefsAreGiven, Nothing, JenkinsManagerAssumption
      <3>3. ASSUME OneKindPerName, NEW k \in Kinds, Known(k, n) PROVE k = kind
        BY <3>1, <3>2, <3>3 DEF OneKindPerName, Known, Kinds
      <3>. QED
        BY <3>1, <3>3 DEF HeldByServer
    <2>5. cache'[n] = defs[kind][n]
      BY <1>1, <2>2
    <2>6. HeldByServer(defs[kind][n], n) => HeldByServer(cache[n], n)'
      BY <2>2, <2>5 DEF HeldByServer
    <2>. QED
      BY <2>1, <2>2, <2>3, <2>4, <2>6, HeldStays DEF CacheIsRight
  <1>8. CASE SaveUpdated
    <2>1. /\ at = "record" /\ at' \in {"call", "exit"} /\ UNCHANGED <<server, cache>>
          /\ \A n \in Names : tasks[n] = "none"
      BY <1>8 DEF SaveUpdated, Unread, MoveOn, Fail
    <2>. QED
      BY <2>1, HeldStays DEF CacheIsRight
  <1>9. ~FilterFails
    BY DEF FilterFails, NoServerFaults
  <1>. QED
    BY <1>2, <1>3, <1>4, <1>5, <1>6, <1>7, <1>8, <1>9 DEF Update

LEMMA RightDelete ==
  ASSUME NoServerFaults, FoldersStay, FullInv, SmoothRun, CacheIsRight, agenda # <<>>, DeleteNamed
  PROVE  CacheIsRight'
  <1>1. /\ cache \in [Names -> Configs \cup {Blank, NoEntry}] /\ server \in [Kinds -> Items]
        /\ run \in Commands
    BY DEF FullInv, Inv, TypeOK
  <1>2. at \in Busy /\ Head(agenda).call = "delete" /\ at \in {"call", "deleting"}
    BY DEF DeleteNamed, StartDelete, SaveDeleted, Delete, Calling, Busy
  <1>3. run.cmd = "delete"
    BY <1>2, HeadOfAgenda
  <1>4. CASE StartDelete \/ SaveDeleted
    <2>1. at' \in {"call", "deleting", "exit"} /\ UNCHANGED <<server, cache, run>>
      BY <1>4 DEF StartDelete, SaveDeleted, MoveOn, Fail
    <2>. QED
      BY <1>2, <1>3, <2>1, HeldStays DEF CacheIsRight
  <1>5. ASSUME NEW n \in Names, Delete(n) PROVE CacheIsRight'
    <2>1. /\ at = "deleting" /\ UNCHANGED <<at, run>> /\ n \in run.names /\ kind \in Kinds
          /\ UNCHANGED server \/ server' = [server EXCEPT ![kind] = Remove(@, kind, n)]
      BY <1>5, DeleteGoesOn
    <2>2. cache' = [cache EXCEPT ![n] = IF @ # NoEntry THEN Blank ELSE @]
      BY <1>5, <2>1 DEF Delete
    <2>3. cache'[n] \notin Configs
      BY <1>1, <2>2, JenkinsManagerAssumption DEF JenkinsManagerAssumption
    <2>4. ASSUME NEW m \in Names, m # n
          PROVE  cache'[m] = cache[m] /\ \A k \in Kinds : server'[k][m] = server[k][m]
      <3>1. n \notin Inside[m]
        BY <1>1, <1>3, <2>1 DEF FoldersStay
      <3>. QED
        BY <1>1, <2>1, <2>2, <2>4, <3>1 DEF Remove
    <2>. QED
      BY <1>3, <2>1, <2>3, <2>4, HeldStays DEF CacheIsRight
  <1>. QED
    BY <1>4, <1>5 DEF DeleteNamed

LEMMA RightDeleteAll ==
  ASSUME NoServerFaults, FullInv, CacheIsRight, agenda # <<>>, delete_all_jobs \/ delete_all_views
  PROVE  CacheIsRight'
  <1>1. at \in Busy /\ Head(agenda).call = "delete_all"
    BY DEF delete_all_jobs, delete_all_views, ListViews, ViewsDeleted, DeleteView, Calling, Busy
  <1>2. run.cmd = "delete_all"
    BY <1>1, HeadOfAgenda
  <1>3. CASE delete_all_jobs \/ ViewsDeleted
    <2>1. cache' = Empty /\ at' \in {"call", "exit"}
      BY <1>3 DEF delete_all_jobs, ViewsDeleted, MoveOn, NoServerFaults
    <2>. QED
      BY <2>1, EmptyIsSent DEF CacheIsRight
  <1>4. CASE ListViews \/ \E n \in Names : DeleteView(n)
    <2>1. at' = "deleting" /\ UNCHANGED run
      BY <1>4 DEF ListViews, ListLeft, DeleteView, RemoveRequest, NoServerFaults
    <2>. QED
      BY <1>2, <2>1 DEF CacheIsRight
  <1>. QED
    BY <1>3, <1>4 DEF delete_all_views

LEMMA RightNext ==
  ASSUME NoServerFaults, FoldersStay, NothingOldDeleted,
         FullInv, SmoothRun, DoneIsThere, CacheIsRight, [Next]_vars
  PROVE  CacheIsRight'
  <1>1. CASE UNCHANGED vars
    BY <1>1, HeldStays DEF vars, CacheIsRight
  <1>2. CASE \E c \in Commands, d \in Definitions : Begin(c, d)
    BY <1>2, HeldStays DEF Begin, CacheIsRight
  <1>3. CASE LoadCache
    BY <1>3, HeldStays, EmptyIsSent DEF LoadCache, CacheIsRight
  <1>4. CASE Generate
    BY <1>4, HeldStays DEF Generate, Fail, CacheIsRight
  <1>5. CASE Exit
    BY <1>5, HeldStays DEF Exit, CacheIsRight, NoServerFaults
  <1>6. CASE Unlock
    BY <1>6, HeldStays DEF Unlock, Forgotten, CacheIsRight
  <1>7. ~Kill /\ ~RemoveOldFile
    BY DEF Kill, RemoveOldFile, NoServerFaults
  <1>8. CASE /\ at \in Busy /\ agenda # <<>>
             /\ Update \/ DeleteOldManaged \/ DeleteNamed \/ delete_all_jobs \/ delete_all_views
    <2>1. ~DeleteOldManaged
      <3>1. SUFFICES Head(agenda).call # "delete_old"
        BY DEF DeleteOldManaged, ListOld, DeleteOld, OldDeleted, Calling
      <3>. QED
        BY <1>8, HeadOfAgenda DEF NothingOldDeleted, FullInv, Inv, TypeOK
    <2>. QED
      BY <1>8, <2>1, RightUpdate, RightDelete, RightDeleteAll
  <1>. QED
    BY <1>1, <1>2, <1>3, <1>4, <1>5, <1>6, <1>7, <1>8, StepCases DEF FullInv

LEMMA DoneInvariant == Spec => []DoneIsThere
  <1>1. Init => DoneIsThere
    BY DEF Init, DoneIsThere
  <1>2. FullInv /\ DoneIsThere /\ [Next]_vars => DoneIsThere'
    BY DoneNext
  <1>. QED
    BY <1>1, <1>2, FullInvariant, PTL DEF Spec

LEMMA RightInvariant ==
  ASSUME NoServerFaults, FoldersFirst, FoldersStay, NothingOldDeleted
  PROVE  Spec => []CacheIsRight
  <1>1. Init => CacheIsRight
    BY EmptyIsSent DEF Init, CacheIsRight
  <1>2. FullInv /\ SmoothRun /\ DoneIsThere /\ CacheIsRight /\ [Next]_vars => CacheIsRight'
    BY RightNext
  <1>3. NothingDeletedTwice
    <2>1. \A c \in Commands : c.names \subseteq Names
      BY JenkinsManagerAssumption DEF JenkinsManagerAssumption, CommandLine
    <2>. QED
      BY <2>1 DEF FoldersStay, NothingDeletedTwice
  <1>4. Spec => []SmoothRun
    BY <1>3, SmoothInvariant
  <1>. QED
    BY <1>1, <1>2, <1>4, FullInvariant, DoneInvariant, PTL DEF Spec

(* What the cache says of a job or a view is what the server has           *)
(* (builder.py:227-245, 338-346, 420-438) when nothing fails but the       *)
(* definitions: for update, delete and delete-all in any order, even if a  *)
(* job and a view share a name, provided --delete-old is not used and no   *)
(* folder with jobs in it is deleted by name.                              *)
THEOREM CacheIsSound ==
  ASSUME NoServerFaults, FoldersFirst, FoldersStay, NothingOldDeleted
  PROVE  Spec => []CacheSound
  <1>1. CacheIsRight => CacheSound
    BY DEF CacheIsRight, CacheSound, HeldByServer
  <1>. QED
    BY <1>1, RightInvariant, PTL

-----------------------------------------------------------------------------
(* What is up to date stays so during an update without --delete-old.      *)
LEMMA UpdatedStays ==
  ASSUME NothingOldDeleted, FullInv, [Next]_vars, run.cmd = "update", UNCHANGED <<run, defs>>,
         NEW k \in Kinds, NEW n \in Names, Updated(k, n)
  PROVE  Updated(k, n)'
  <1>1. ~run.delete_old
    BY DEF NothingOldDeleted, FullInv, Inv, TypeOK
  <1>2. UNCHANGED server \/ \E m \in Names : Upload(m)
    BY <1>1, RemovalsOfUpdates
  <1>3. server'[k][n] \in {server[k][n], defs[k][n]}
    BY <1>2, UploadPuts
  <1>. QED
    BY <1>3 DEF Updated

LEMMA AllUpdatedStays ==
  ASSUME NothingOldDeleted, FullInv, [Next]_vars, run.cmd = "update", UNCHANGED <<run, defs>>,
         NEW k \in KindsOf(run), \A n \in Wanted(k) : Updated(k, n)
  PROVE  \A n \in Wanted(k)' : Updated(k, n)'
  <1>1. Wanted(k)' = Wanted(k) /\ Wanted(k) \subseteq Names /\ k \in Kinds
    BY WantedNames, KindsOfRun DEF FullInv, Inv, TypeOK, Wanted
  <1>. QED
    BY <1>1, UpdatedStays

(* A call of an update is over: each kind is up to date or still to come.  *)
LEMMA UpdateCallOver ==
  ASSUME NothingOldDeleted, FullInv, UpdatedSoFar, [Next]_vars, agenda # <<>>, at \in Busy,
         run.cmd = "update", MoveOn, UNCHANGED <<run, defs>>,
         Head(agenda) = UpdateOf(kind) => \A n \in Wanted(kind) : Updated(kind, n)
  PROVE  UpdatedSoFar'
  <1>1. /\ \A k : Pending(k) => Pending(k)' \/ Head(agenda) = UpdateOf(k)
        /\ at' = "exit" => agenda' = <<>>
        /\ at' \in {"exit", "call"}
    BY AgendaShrinks DEF FullInv, Inv, AgendaOfRun
  <1>2. \A k \in KindsOf(run) : Pending(k)' \/ \A n \in Wanted(k) : Updated(k, n)
    <2>1. \A k : Head(agenda) = UpdateOf(k) => k = kind
      BY DEF UpdateOf, kind
    <2>. QED
      BY <1>1, <2>1 DEF UpdatedSoFar
  <1>3. \A k \in KindsOf(run) : (\A n \in Wanted(k) : Updated(k, n)) => \A n \in Wanted(k)' : Updated(k, n)'
    BY AllUpdatedStays
  <1>4. at' = "exit" => \A k : ~Pending(k)'
    BY <1>1 DEF Pending
  <1>. QED
    BY <1>1, <1>2, <1>3, <1>4 DEF UpdatedSoFar, KindsOf

(* An item that is not to be uploaded is up to date.                       *)
LEMMA NothingMissed ==
  ASSUME ExistingOnlyForJobs, FullInv, Trusted, Calling("update"), run.cmd = "update"
  PROVE  \A n \in Wanted(kind) \ ToUpdate(kind) : Updated(kind, n)
  <1>. TAKE n \in Wanted(kind) \ ToUpdate(kind)
  <1>1. ~Changed(kind, n) \/ (run.existing_only /\ ~JobExists(n))
    BY DEF ToUpdate
  <1>2. CASE ~Changed(kind, n)
    BY <1>2 DEF Changed, Trusted, Updated
  <1>3. CASE run.existing_only /\ ~JobExists(n)
    <2>1. kind = "job"
      <3>1. at \in Busy /\ agenda # <<>> /\ run \in Commands
        BY DEF Calling, Busy, FullInv, Inv, TypeOK
      <3>2. kind \in KindsOf(run)
        BY <3>1, HeadOfUpdate
      <3>3. run.kinds = <<"job">>
        BY <1>3, <3>1 DEF ExistingOnlyForJobs
      <3>. QED
        BY <3>2, <3>3 DEF KindsOf
    <2>. QED
      BY <1>3, <2>1 DEF JobExists, Updated
  <1>. QED
    BY <1>1, <1>2, <1>3

LEMMA UpdatedSoFarNext ==
  ASSUME NothingOldDeleted, ExistingOnlyForJobs,
         FullInv, DoneIsThere, Trusted, UpdatedSoFar, [Next]_vars
  PROVE  UpdatedSoFar'
  <1>0. SUFFICES ASSUME run'.cmd = "update" PROVE UpdatedSoFar'
    BY DEF UpdatedSoFar
  <1>1. TypeOK /\ run \in Commands /\ tasks \in [Names -> States] /\ InCall
    BY DEF FullInv, Inv, TypeOK, States
  <1>2. CASE UNCHANGED vars
    BY <1>2 DEF vars, UpdatedSoFar, Updated, Pending, Wanted, kind, KindsOf
  <1>3. CASE LoadCache \/ Kill \/ \E c \in Commands, d \in Definitions : Begin(c, d)
    BY <1>3 DEF Begin, LoadCache, Kill, Forgotten, UpdatedSoFar, Busy
  <1>4. CASE Generate
    <2>1. CASE Fail
      BY <1>4, <2>1 DEF Fail, UpdatedSoFar, Busy
    <2>2. CASE agenda' = Agenda(run) /\ at' = "call" /\ UNCHANGED result
      <3>1. \A k \in KindsOf(run) : Pending(k)'
        BY <1>0, <1>1, <1>4, <2>2, AgendaStarts DEF Generate, Pending, UpdateOf
      <3>. QED
        BY <1>4, <2>2, <3>1 DEF Generate, UpdatedSoFar, Busy, KindsOf
    <2>. QED
      BY <1>4, <2>1, <2>2 DEF Generate
  <1>5. CASE Exit \/ Unlock
    BY <1>0, <1>5 DEF Exit, Unlock, Forgotten, UpdatedSoFar, Busy, Wanted, Updated, KindsOf
  <1>6. CASE /\ at \in Busy /\ agenda # <<>>
             /\ Update \/ DeleteOldManaged \/ DeleteNamed \/ delete_all_jobs \/ delete_all_views
    <2>1. UNCHANGED <<run, defs>> /\ run.cmd = "update"
      BY <1>0, <1>6, CallControl DEF FullInv
    <2>2. /\ kind \in KindsOf(run) /\ kind \in Kinds
          /\ Head(agenda).call = "update" => Head(agenda) = UpdateOf(kind) /\ Pending(kind)
          /\ Head(agenda).call # "update" => \A k : Head(agenda) # UpdateOf(k)
      BY <1>6, HeadOfUpdate
    <2>3. ASSUME UNCHANGED agenda
          PROVE  \A k \in KindsOf(run)' : Pending(k)' \/ \A n \in Wanted(k)' : Updated(k, n)'
      <3>1. \A k \in KindsOf(run) : (\A n \in Wanted(k) : Updated(k, n)) => \A n \in Wanted(k)' : Updated(k, n)'
        BY <2>1, AllUpdatedStays
      <3>2. \A k : Pending(k) => Pending(k)'
        BY <2>3 DEF Pending, UpdateOf
      <3>. QED
        BY <1>6, <2>1, <3>1, <3>2 DEF UpdatedSoFar, KindsOf
    <2>4. CASE Fail
      BY <2>4 DEF Fail, UpdatedSoFar, Busy
    <2>5. CASE Filter /\ ToUpdate(kind) = {}
      <3>1. \A n \in Wanted(kind) : Updated(kind, n)
        BY <2>1, <2>5, NothingMissed DEF Filter
      <3>. QED
        BY <1>6, <2>1, <2>5, <3>1, UpdateCallOver DEF Filter
    <2>6. CASE OldDeleted
      <3>1. MoveOn /\ Head(agenda).call # "update"
        BY <2>6 DEF OldDeleted
      <3>. QED
        BY <1>6, <2>1, <2>2, <3>1, UpdateCallOver
    <2>7. CASE SaveUpdated /\ MoveOn
      <3>1. at = "record" /\ \A n \in Names : tasks[n] = "none"
        BY <2>7 DEF SaveUpdated, Unread
      <3>2. \A n \in Wanted(kind) : Updated(kind, n)
        BY <1>1, <2>1, <3>1, WantedNames DEF UpdatedSoFar
      <3>. QED
        BY <1>6, <2>1, <2>7, <3>2, UpdateCallOver
    <2>8. CASE OldStep
      BY <2>3, <2>8 DEF OldStep, UpdatedSoFar, Busy
    <2>9. ASSUME at' \in {"upload", "record"}, UNCHANGED agenda,
                 \A n \in Wanted(kind) : tasks'[n] # "none" \/ Updated(kind, n)
          PROVE  UpdatedSoFar'
      <3>1. kind' = kind /\ Wanted(kind)' = Wanted(kind) /\ Wanted(kind) \subseteq Names
        BY <1>1, <2>1, <2>9, WantedNames DEF kind, Wanted
      <3>2. \A n \in Wanted(kind) : Updated(kind, n) => Updated(kind, n)'
        BY <2>1, <2>2, <3>1, UpdatedStays
      <3>3. \A n \in Wanted(kind)' : tasks'[n] # "none" \/ Updated(kind, n)'
        BY <2>9, <3>1, <3>2
      <3>. QED
        BY <2>3, <2>9, <3>1, <3>3 DEF UpdatedSoFar
    <2>10. CASE Filter /\ ToUpdate(kind) # {}
      <3>1. /\ at' = "upload" /\ UNCHANGED agenda
            /\ tasks' = [n \in Names |-> IF n \in ToUpdate(kind) THEN "queued" ELSE "none"]
        BY <2>10 DEF Filter
      <3>2. \A n \in Wanted(kind) : tasks'[n] # "none" \/ Updated(kind, n)
        BY <1>1, <2>1, <2>10, <3>1, NothingMissed, WantedNames DEF Filter
      <3>. QED
        BY <2>9, <3>1, <3>2
    <2>11. ASSUME NEW n \in Names, Decide(n) \/ Upload(n) \/ UploadFails(n) PROVE UpdatedSoFar'
      <3>1. at = "upload" /\ at' = "upload" /\ UNCHANGED agenda /\ tasks[n] # "none"
        BY <2>11 DEF Decide, Upload, UploadFails, IsFirst, InFlight
      <3>2. \A m \in Names : tasks[m] # "none" => tasks'[m] # "none"
        BY <1>1, <2>11 DEF Decide, Upload, UploadFails
      <3>3. \A m \in Wanted(kind) : tasks'[m] # "none" \/ Updated(kind, m)
        BY <1>1, <2>1, <3>1, <3>2, WantedNames DEF UpdatedSoFar
      <3>. QED
        BY <2>9, <3>1, <3>3
    <2>12. ASSUME NEW n \in Names, Record(n), tasks[n] = "done" PROVE UpdatedSoFar'
      <3>1. /\ at = "record" /\ at' = "record" /\ UNCHANGED agenda
            /\ tasks' = [tasks EXCEPT ![n] = "none"]
        BY <2>12 DEF Record
      <3>2. Updated(kind, n)
        BY <2>12, <3>1 DEF DoneIsThere, Updated
      <3>3. \A m \in Names : m # n => tasks'[m] = tasks[m]
        BY <1>1, <3>1
      <3>4. \A m \in Wanted(kind) : tasks'[m] # "none" \/ Updated(kind, m)
        BY <1>1, <2>1, <3>1, <3>2, <3>3, WantedNames DEF UpdatedSoFar
      <3>. QED
        BY <2>9, <3>1, <3>4
    <2>13. CASE Collect
      <3>1. at = "upload" /\ at' = "record" /\ UNCHANGED <<agenda, tasks>>
        BY <2>13 DEF Collect
      <3>. QED
        BY <2>1, <2>9, <3>1 DEF UpdatedSoFar
    <2>. QED
      BY <1>6, <2>1, <2>4, <2>5, <2>6, <2>7, <2>8, <2>10, <2>11, <2>12, <2>13, UpdateSteps DEF FullInv
  <1>7. CASE RemoveOldFile
    BY <1>7 DEF RemoveOldFile, UpdatedSoFar, Updated, Pending, Wanted, kind, KindsOf
  <1>. QED
    BY <1>2, <1>3, <1>4, <1>5, <1>6, <1>7, StepCases DEF FullInv

LEMMA UpdatedInvariant ==
  ASSUME NothingOldDeleted, ExistingOnlyForJobs
  PROVE  Spec /\ []Trusted => []UpToDate
  <1>1. Init => UpdatedSoFar
    BY DEF Init, UpdatedSoFar, Busy
  <1>2. FullInv /\ DoneIsThere /\ Trusted /\ UpdatedSoFar /\ [Next]_vars => UpdatedSoFar'
    BY UpdatedSoFarNext
  <1>3. UpdatedSoFar => UpToDate
    BY DEF UpdatedSoFar, UpToDate, Updated, KindsOf
  <1>. QED
    BY <1>1, <1>2, <1>3, FullInvariant, DoneInvariant, PTL DEF Spec

(* After an update that went well the server holds what the definitions    *)
(* make (builder.py:247-255, 312-349; execution.rst:191-195), however they *)
(* are edited back and forth, when nothing but the definitions fails: for  *)
(* update, delete and delete-all in any order, provided no name is both a  *)
(* job's and a view's, --delete-old is not used, --existing-only is used   *)
(* for jobs and no folder with jobs in it is deleted by name.              *)
THEOREM UpToDateWithoutFaults ==
  ASSUME NoServerFaults, OneKindPerName, FoldersFirst, FoldersStay,
         NothingOldDeleted, ExistingOnlyForJobs
  PROVE  Spec => []UpToDate
  <1>1. FullInv /\ CacheIsRight => Trusted
    <2>. SUFFICES ASSUME FullInv, CacheIsRight, run.cmd = "update", Calling("update"),
                         NEW n \in Wanted(kind), cache[n] = defs[kind][n]
                  PROVE  server[kind][n] = defs[kind][n]
      BY DEF Trusted
    <2>1. at = "call" /\ at \in Busy /\ agenda # <<>> /\ TypeOK
      BY DEF Calling, Busy, FullInv, Inv
    <2>2. kind \in Kinds /\ n \in Names /\ defs[kind][n] # NotDefined
      BY <2>1, HeadOfAgenda, WantedNames DEF Wanted
    <2>3. cache[n] \in Configs
      BY <2>1, <2>2 DEF TypeOK, Generated
    <2>4. Known(kind, n)
      BY <2>2 DEF FullInv, DefsAreGiven, Nothing, Known
    <2>. QED
      BY <2>1, <2>2, <2>3, <2>4 DEF CacheIsRight, HeldByServer
  <1>2. Spec => []CacheIsRight
    BY RightInvariant
  <1>3. Spec /\ []Trusted => []UpToDate
    BY UpdatedInvariant
  <1>. QED
    BY <1>1, <1>2, <1>3, FullInvariant, PTL

-----------------------------------------------------------------------------
(* The versions of a definition, ordered by what is made after what.       *)
Versions == Configs \cup {NotDefined}

IsForward(Before) ==
    /\ \A c \in Versions : <<c, c>> \in Before
    /\ \A c, d \in Versions : <<c, d>> \in Before /\ <<d, c>> \in Before => c = d
    /\ \A c, d, e \in Versions : <<c, d>> \in Before /\ <<d, e>> \in Before => <<c, e>> \in Before
    /\ \A c, d \in Versions : <<c, d>> \in Changes => <<c, d>> \in Before

LEMMA InOrderNext ==
  ASSUME OneKindPerName, OnlyUpdates, NothingOldDeleted, NEW Before, IsForward(Before),
         FullInv, SentInOrder(Before), [Next]_vars
  PROVE  SentInOrder(Before)'
  <1>1. /\ TypeOK /\ run.cmd = "update" /\ ~run.delete_old
        /\ sent \in [Names -> SUBSET Configs] /\ defs \in Generated
    BY DEF OnlyUpdates, NothingOldDeleted, FullInv, Inv, TypeOK
  <1>2. UNCHANGED server \/ \E n \in Names : Upload(n)
    BY <1>1, RemovalsOfUpdates
  <1>3. ASSUME NEW n \in Names, Upload(n) PROVE SentInOrder(Before)'
    <2>1. \A k \in Kinds : Known(k, n) => k = kind
      BY <1>3, UploadPuts DEF OneKindPerName, Known, Kinds
    <2>2. sent'[n] = sent[n] \cup {defs[kind][n]} /\ \A m \in Names : m # n => sent'[m] = sent[m]
      BY <1>1, <1>3, UploadPuts
    <2>3. \A c \in sent'[n] : <<c, defs[kind][n]>> \in Before
      BY <1>3, <2>2, UploadPuts DEF SentInOrder, IsForward, Versions
    <2>. QED
      BY <1>3, <2>1, <2>2, <2>3, UploadPuts DEF SentInOrder, Known
  <1>4. ASSUME NEW c \in Commands, NEW d \in Definitions, Begin(c, d) PROVE SentInOrder(Before)'
    <2>1. MayFollow(d) /\ defs' = d /\ UNCHANGED <<server, sent>> /\ d \in Generated
      BY <1>4, JenkinsManagerAssumption
         DEF Begin, UsesDefinitions, OnlyUpdates, JenkinsManagerAssumption
    <2>2. ASSUME NEW k \in Kinds, NEW n \in Names, Known(k, n), NEW x \in sent[n]
          PROVE  <<x, d[k][n]>> \in Before
      <3>1. x \in Versions /\ defs[k][n] \in Versions /\ d[k][n] \in Versions
        BY <1>1, <2>1 DEF Generated, Versions
      <3>2. <<x, defs[k][n]>> \in Before
        BY <2>2 DEF SentInOrder
      <3>3. <<defs[k][n], d[k][n]>> \in Before
        BY <2>1, <3>1 DEF MayFollow, IsForward
      <3>. QED
        BY <3>1, <3>2, <3>3 DEF IsForward
    <2>. QED
      BY <2>1, <2>2 DEF SentInOrder, Known
  <1>5. CASE UNCHANGED <<server, defs, sent>>
    BY <1>5 DEF SentInOrder, Known
  <1>6. ASSUME \A n \in Names : ~Upload(n) PROVE UNCHANGED sent
    <2>1. CASE /\ at \in Busy /\ agenda # <<>>
               /\ Update \/ DeleteOldManaged \/ DeleteNamed \/ delete_all_jobs \/ delete_all_views
      <3>1. Update => UNCHANGED sent
        BY <1>6 DEF Update, Filter, FilterFails, Decide, UploadFails, Record, Collect, SaveUpdated
      <3>2. DeleteOldManaged \/ DeleteNamed => UNCHANGED sent
        BY DEF DeleteOldManaged, ListOld, ListLeft, OldDeleted, DeleteOld, DeleteNamed,
               StartDelete, SaveDeleted, Delete
      <3>3. delete_all_jobs \/ delete_all_views => UNCHANGED sent
        BY DEF delete_all_jobs, delete_all_views, ListViews, ListLeft, ViewsDeleted, DeleteView
      <3>. QED
        BY <2>1, <3>1, <3>2, <3>3
    <2>. QED
      BY <2>1, StepCases DEF FullInv, vars, Begin, LoadCache, Generate, Exit, Unlock, Kill, RemoveOldFile
  <1>7. (\E c \in Commands, d \in Definitions : Begin(c, d)) \/ UNCHANGED defs
    BY StepCases, CallControl DEF FullInv, vars, LoadCache, Generate, Exit, Unlock, Kill, RemoveOldFile
  <1>. QED
    BY <1>2, <1>3, <1>4, <1>5, <1>6, <1>7

(* Whatever fails or is killed, after an update that went well the server  *)
(* holds what the definitions make (builder.py:247-255, 312-349), provided *)
(* no definition makes again what it made before something else: an upload *)
(* that was carried out and not recorded then leaves a digest in the cache *)
(* that no later definition has.                                           *)
THEOREM UpToDateForward ==
  ASSUME Forward, OneKindPerName, OnlyUpdates, NothingOldDeleted, ExistingOnlyForJobs
  PROVE  Spec => []UpToDate
  <1>1. PICK Before : IsForward(Before)
    BY DEF Forward, IsForward, Versions
  <1>2. Init => SentInOrder(Before)
    BY DEF Init, SentInOrder
  <1>3. FullInv /\ SentInOrder(Before) /\ [Next]_vars => SentInOrder(Before)'
    BY <1>1, InOrderNext
  <1>4. FullInv /\ SentInOrder(Before) => Trusted
    <2>. SUFFICES ASSUME FullInv, SentInOrder(Before), Calling("update"),
                         NEW n \in Wanted(kind), cache[n] = defs[kind][n]
                  PROVE  server[kind][n] = defs[kind][n]
      BY DEF Trusted
    <2>1. at = "call" /\ at \in Busy /\ agenda # <<>> /\ TypeOK
      BY DEF Calling, Busy, FullInv, Inv
    <2>2. kind \in Kinds /\ n \in Names /\ defs[kind][n] # NotDefined
      BY <2>1, HeadOfAgenda, WantedNames DEF Wanted
    <2>3. cache[n] \in Configs /\ cache[n] \in sent[n] /\ sent[n] \subseteq Configs
      BY <2>1, <2>2 DEF TypeOK, Generated, FullInv, Inv, CacheIsSent
    <2>4. Known(kind, n)
      BY <2>2 DEF FullInv, DefsAreGiven, Nothing, Known
    <2>5. /\ server[kind][n] \in sent[n]
          /\ <<cache[n], server[kind][n]>> \in Before
          /\ <<server[kind][n], defs[kind][n]>> \in Before
      BY <2>2, <2>3, <2>4 DEF SentInOrder
    <2>. QED
      BY <1>1, <2>3, <2>5 DEF IsForward, Versions
  <1>5. Spec /\ []Trusted => []UpToDate
    BY UpdatedInvariant
  <1>6. Spec => []SentInOrder(Before)
    BY <1>2, <1>3, FullInvariant, PTL DEF Spec
  <1>. QED
    BY <1>4, <1>5, <1>6, FullInvariant, PTL
=============================================================================
