------------------------ MODULE JenkinsManagerProofs ------------------------
(***************************************************************************)
(* Proofs about JenkinsManager, for any names, folders, configurations,    *)
(* command lines, definitions and faults.                                  *)
(*                                                                         *)
(* The argument for the cache: an entry is set only for an upload that is  *)
(* "done", an upload is "done" only after the server took it, and the file *)
(* only ever receives a copy of the cache.  Between the upload and the     *)
(* entry neither the definitions nor the kind of the call change.          *)
(* What holds for a whole command rests on where it is in its agenda.      *)
(***************************************************************************)
EXTENDS JenkinsManager, SequenceTheorems, TLAPS

Calls == [call : {"update", "delete_old", "delete", "delete_all"}, kind : Kinds]

States == {"none", "queued", "create", "reconfig", "done", "failed"}

(* A call is being made, and it is the head of the agenda.                 *)
InCall == at \in {"call", "upload", "record", "deleting"} => agenda # <<>>

(* What is uploaded was generated, and what is done was taken.             *)
TasksAreGenerated ==
    at \in {"upload", "record"} =>
        \A n \in Names :
            /\ tasks[n] # "none" => defs[kind][n] \in Configs
            /\ tasks[n] = "done" => defs[kind][n] \in sent[n]

CacheIsSent == \A n \in Names : cache[n] \in Configs => cache[n] \in sent[n]

NotLoaded == at \in {"idle", "loading"} => cache = Empty

(* The inductive invariant.                                                *)
Inv ==
    /\ TypeOK
    /\ InCall
    /\ TasksAreGenerated
    /\ CacheIsSent
    /\ CacheNeverInvents
    /\ NotLoaded

-----------------------------------------------------------------------------
(* The head of a nonempty agenda is a call with its kind.                  *)
LEMMA KindOfCall == ASSUME TypeOK, agenda # <<>> PROVE kind \in Kinds /\ Head(agenda) \in Calls
  <1>1. agenda \in Seq(Calls)
    BY DEF TypeOK, Calls
  <1>2. Head(agenda) \in Calls
    BY <1>1, HeadTailProperties
  <1>. QED
    BY <1>2 DEF kind, Calls

(* A command line is made of the calls of its kinds, at least one.         *)
LEMMA AgendaType == \A r \in Commands : Agenda(r) \in Seq(Calls) /\ Agenda(r) # <<>>
  <1>. TAKE r \in Commands
  <1>1. r \in CommandLine
    BY JenkinsManagerAssumption DEF JenkinsManagerAssumption
  <1>2. r.kinds \in Seq(Kinds) /\ Len(r.kinds) \in {1, 2}
    <2>1. r.kinds = <<"job">> \/ r.kinds = <<"view">> \/ r.kinds = <<"job", "view">>
      BY <1>1 DEF CommandLine
    <2>2. CASE r.kinds = <<"job">>
      BY <2>2 DEF Kinds
    <2>3. CASE r.kinds = <<"view">>
      BY <2>3 DEF Kinds
    <2>4. CASE r.kinds = <<"job", "view">>
      BY <2>4 DEF Kinds
    <2>. QED
      BY <2>1, <2>2, <2>3, <2>4
  <1>3. ASSUME NEW c \in {"update", "delete_old", "delete", "delete_all"}
        PROVE  Each(c, r.kinds) \in Seq(Calls) /\ Len(Each(c, r.kinds)) = Len(r.kinds)
    <2>1. \A i \in 1..Len(r.kinds) : r.kinds[i] \in Kinds
      BY <1>2, ElementOfSeq
    <2>2. \A i \in 1..Len(r.kinds) : [call |-> c, kind |-> r.kinds[i]] \in Calls
      BY <2>1 DEF Calls
    <2>3. Len(r.kinds) \in Nat
      BY <1>2
    <2>. QED
      BY <2>2, <2>3 DEF Each
  <1>4. Each(r.cmd, r.kinds) \in Seq(Calls) /\ Len(Each(r.cmd, r.kinds)) \in {1, 2}
    BY <1>1, <1>2, <1>3 DEF CommandLine
  <1>5. (IF r.cmd = "update" /\ r.delete_old THEN Each("delete_old", r.kinds) ELSE <<>>)
          \in Seq(Calls)
    BY <1>3
  <1>. DEFINE first == Each(r.cmd, r.kinds)
              second == IF r.cmd = "update" /\ r.delete_old
                        THEN Each("delete_old", r.kinds) ELSE <<>>
  <1>6. first \o second \in Seq(Calls) /\ Len(first \o second) = Len(first) + Len(second)
    <2>. HIDE DEF first, second
    <2>1. first \in Seq(Calls) /\ second \in Seq(Calls)
      BY <1>4, <1>5 DEF first, second
    <2>. QED
      BY <2>1, ConcatProperties
  <1>7. Len(first) \in {1, 2} /\ Len(second) \in Nat
    BY <1>4, <1>5
  <1>8. Len(first \o second) # 0
    <2>. HIDE DEF first, second
    <2>. QED
      BY <1>6, <1>7
  <1>9. Agenda(r) = first \o second
    BY DEF Agenda
  <1>. HIDE DEF first, second
  <1>. QED
    BY <1>6, <1>8, <1>9

LEMMA EmptyType == Empty \in [Names -> Configs \cup {Blank, NoEntry}]
  BY DEF Empty

LEMMA EmptyIsSent == \A n \in Names : Empty[n] \notin Configs
  BY JenkinsManagerAssumption DEF JenkinsManagerAssumption, Empty

LEMMA InvInit == Init => Inv
  <1>. SUFFICES ASSUME Init PROVE Inv
    OBVIOUS
  <1>1. server \in [Kinds -> Items] /\ defs \in Generated
    BY JenkinsManagerAssumption DEF JenkinsManagerAssumption, Init, Nothing, Generated
  <1>2. /\ disk \in [Names -> Configs \cup {Blank, NoEntry}]
        /\ cache \in [Names -> Configs \cup {Blank, NoEntry}]
    BY EmptyType DEF Init
  <1>3. /\ tasks \in [Names -> {"none", "queued", "create", "reconfig", "done", "failed"}]
        /\ sent \in [Names -> SUBSET Configs]
    BY DEF Init, NoTasks
  <1>4. listed \in [Kinds -> (SUBSET Names) \cup {NoList}]
    BY DEF Init, Unlisted
  <1>5. run \in Commands /\ left \subseteq Names /\ repeat \in BOOLEAN /\ result = "none"
    BY DEF Init
  <1>6. at = "idle" /\ agenda = <<>>
    BY DEF Init
  <1>7. agenda \in Seq([call : {"update", "delete_old", "delete", "delete_all"},
                        kind : Kinds])
    BY <1>6
  <1>8. TypeOK
    BY <1>1, <1>2, <1>3, <1>4, <1>5, <1>6, <1>7 DEF TypeOK
  <1>9. CacheIsSent /\ CacheNeverInvents /\ NotLoaded
    BY EmptyIsSent DEF Init, CacheIsSent, CacheNeverInvents, NotLoaded
  <1>. QED
    BY <1>6, <1>8, <1>9 DEF Inv, InCall, TasksAreGenerated
-----------------------------------------------------------------------------
(* What is left of the agenda when a call returns.                         *)
LEMMA MoveOnType ==
  ASSUME TypeOK, agenda # <<>>, MoveOn
  PROVE  /\ agenda' \in Seq(Calls)
         /\ at' \in {"exit", "call"}
         /\ at' = "call" => agenda' # <<>>
         /\ result' \in {"none", "ok", "failed"}
  <1>1. agenda \in Seq(Calls)
    BY DEF TypeOK, Calls
  <1>2. agenda' = Tail(agenda) /\ Tail(agenda) \in Seq(Calls) /\ Len(Tail(agenda)) = Len(agenda) - 1
    BY <1>1, HeadTailProperties DEF MoveOn
  <1>3. Len(agenda) \in Nat /\ Len(agenda) # 0
    BY <1>1, EmptySeq
  <1>4. Len(agenda) # 1 => Tail(agenda) # <<>>
    BY <1>2, <1>3
  <1>. QED
    BY <1>2, <1>4 DEF MoveOn, TypeOK

LEMMA FailType ==
  ASSUME Fail
  PROVE  agenda' \in Seq(Calls) /\ at' = "exit" /\ result' = "failed"
  BY DEF Fail

LEMMA ListsType ==
  ASSUME TypeOK, NEW k \in Kinds, Lists(k)
  PROVE  listed' \in [Kinds -> (SUBSET Names) \cup {NoList}] /\ listed'[k] \in (SUBSET Names) \cup {NoList}
  BY DEF TypeOK, Lists, Existing

LEMMA RemoveType ==
  ASSUME TypeOK, NEW k \in Kinds, NEW n \in Names, RemoveRequest(k, n)
  PROVE  /\ server' \in [Kinds -> Items]
         /\ UNCHANGED <<at, agenda, result>> \/ Fail
  BY DEF TypeOK, RemoveRequest, Remove, Items

(* The part of the invariant that is about neither the calls nor their     *)
(* kind: a step that sends nothing and only copies or empties the cache.   *)
LEMMA CacheStep ==
  ASSUME Inv,
         UNCHANGED sent,
         \A n \in Names : cache'[n] \in Configs => cache'[n] \in {cache[n], disk[n]},
         disk' \in {disk, cache}
  PROVE  CacheIsSent' /\ CacheNeverInvents'
  BY DEF Inv, CacheIsSent, CacheNeverInvents

(* Outside an update nothing is said of the uploads.                       *)
LEMMA NoUpload ==
  ASSUME at' \notin {"upload", "record"} PROVE TasksAreGenerated'
  BY DEF TasksAreGenerated

(* The steps before the first call.                                        *)
LEMMA StartStep ==
  ASSUME Inv, \/ \E c \in Commands, d \in Definitions : Begin(c, d)
              \/ LoadCache \/ Generate
  PROVE  Inv'
  <1>. USE DEF Inv
  <1>1. ASSUME NEW c \in Commands, NEW d \in Definitions, Begin(c, d) PROVE Inv'
    <2>1. d \in Generated
      BY JenkinsManagerAssumption DEF JenkinsManagerAssumption
    <2>2. TypeOK'
      BY <1>1, <2>1 DEF TypeOK, Begin
    <2>3. CacheIsSent' /\ CacheNeverInvents'
      BY <1>1, CacheStep DEF Begin
    <2>. QED
      BY <1>1, <2>2, <2>3 DEF Begin, InCall, TasksAreGenerated, NotLoaded
  <1>2. CASE LoadCache
    <2>1. TypeOK'
      BY <1>2, EmptyType DEF TypeOK, LoadCache
    <2>2. CacheIsSent' /\ CacheNeverInvents'
      BY <1>2, CacheStep, EmptyIsSent DEF LoadCache
    <2>. QED
      BY <1>2, <2>1, <2>2 DEF LoadCache, InCall, TasksAreGenerated, NotLoaded
  <1>3. CASE Generate
    <2>1. run \in Commands
      BY DEF TypeOK
    <2>2. /\ agenda' \in Seq(Calls)
          /\ at' \in {"call", "exit"}
          /\ at' = "call" => agenda' # <<>>
          /\ result' \in {"none", "ok", "failed"}
      BY <1>3, <2>1, AgendaType, FailType DEF Generate, TypeOK
    <2>3. TypeOK'
      BY <1>3, <2>2 DEF TypeOK, Generate, Calls
    <2>4. CacheIsSent' /\ CacheNeverInvents'
      BY <1>3, CacheStep DEF Generate
    <2>. QED
      BY <2>2, <2>3, <2>4 DEF InCall, TasksAreGenerated, NotLoaded
  <1>. QED
    BY <1>1, <1>2, <1>3

-----------------------------------------------------------------------------
(* The steps of update_jobs and update_views.                              *)
LEMMA FilterStep == ASSUME Inv, Filter PROVE Inv'
  <1>1. TypeOK /\ agenda # <<>> /\ at = "call"
    BY DEF Inv, Filter, Calling
  <1>2. CacheIsSent' /\ CacheNeverInvents'
    BY CacheStep DEF Filter
  <1>3. CASE ToUpdate(kind) = {}
    <2>1. MoveOn /\ UNCHANGED <<server, disk, cache, run, defs, tasks, left, listed, repeat, sent>>
      BY <1>3 DEF Filter
    <2>2. /\ agenda' \in Seq(Calls)
          /\ at' \in {"exit", "call"}
          /\ at' = "call" => agenda' # <<>>
          /\ result' \in {"none", "ok", "failed"}
      BY <1>1, <2>1, MoveOnType
    <2>3. TypeOK'
      BY <1>1, <2>1, <2>2 DEF TypeOK, Calls
    <2>. QED
      BY <1>2, <2>2, <2>3 DEF Inv, InCall, TasksAreGenerated, NotLoaded
  <1>4. CASE ToUpdate(kind) # {}
    <2>1. /\ tasks' = [n \in Names |-> IF n \in ToUpdate(kind) THEN "queued" ELSE "none"]
          /\ at' = "upload"
          /\ UNCHANGED <<agenda, result, server, disk, cache, run, defs, left, listed, repeat, sent>>
      BY <1>4 DEF Filter
    <2>2. TypeOK'
      BY <1>1, <2>1 DEF TypeOK
    <2>3. \A n \in Names : n \in ToUpdate(kind) => defs[kind][n] \in Configs
      <3>1. kind \in Kinds
        BY <1>1, KindOfCall
      <3>2. \A n \in Names : defs[kind][n] \in Configs \cup {NotDefined}
        BY <1>1, <3>1 DEF TypeOK, Generated
      <3>. QED
        BY <3>2 DEF ToUpdate, Wanted
    <2>4. kind' = kind
      BY <2>1 DEF kind
    <2>5. TasksAreGenerated'
      BY <2>1, <2>3, <2>4 DEF TasksAreGenerated
    <2>. QED
      BY <1>1, <1>2, <2>1, <2>2, <2>5 DEF Inv, InCall, NotLoaded
  <1>. QED
    BY <1>3, <1>4

(* A command that fails: the uploads are forgotten.                        *)
LEMMA FailStep ==
  ASSUME Inv, Fail, UNCHANGED <<disk, cache, run, defs, repeat, sent>>,
         server' \in [Kinds -> Items],
         left' \subseteq Names,
         tasks' \in [Names -> States],
         listed' \in [Kinds -> (SUBSET Names) \cup {NoList}]
  PROVE  Inv'
  <1>1. agenda' \in Seq(Calls) /\ at' = "exit" /\ result' = "failed"
    BY FailType
  <1>2. TypeOK'
    BY <1>1 DEF Inv, TypeOK, Calls, States
  <1>3. CacheIsSent' /\ CacheNeverInvents'
    BY CacheStep
  <1>. QED
    BY <1>1, <1>2, <1>3 DEF Inv, InCall, TasksAreGenerated, NotLoaded

(* A step of the workers that sends nothing and changes the tasks of names *)
(* that are to be updated, none of them to "done".                         *)
LEMMA WorkerStep ==
  ASSUME Inv, at = "upload", UNCHANGED <<server, disk, cache, run, defs, agenda, left, result, repeat, sent>>,
         at' \in {"upload", "record"},
         listed' \in [Kinds -> (SUBSET Names) \cup {NoList}],
         tasks' \in [Names -> States],
         \A m \in Names : /\ tasks'[m] # "none" => tasks[m] # "none"
                          /\ tasks'[m] = "done" => tasks[m] = "done"
  PROVE  Inv'
  <1>1. TypeOK'
    BY DEF Inv, TypeOK, States
  <1>2. CacheIsSent' /\ CacheNeverInvents'
    BY CacheStep
  <1>3. kind' = kind
    BY DEF kind
  <1>4. TasksAreGenerated'
    BY <1>3 DEF Inv, TasksAreGenerated
  <1>. QED
    BY <1>1, <1>2, <1>4 DEF Inv, InCall, NotLoaded

LEMMA DecideStep == ASSUME Inv, NEW n \in Names, Decide(n) PROVE Inv'
  <1>1. TypeOK /\ at = "upload" /\ agenda # <<>> /\ tasks[n] = "queued"
    BY DEF Inv, InCall, Decide, IsFirst
  <1>2. kind \in Kinds
    BY <1>1, KindOfCall
  <1>3. listed' \in [Kinds -> (SUBSET Names) \cup {NoList}]
    <2>1. CASE Lists(kind)
      BY <1>1, <1>2, <2>1, ListsType
    <2>2. CASE UNCHANGED listed
      BY <1>1, <2>2 DEF TypeOK
    <2>. QED
      BY <2>1, <2>2 DEF Decide
  <1>4. \E t \in {"reconfig", "create", "failed"} : tasks' = [tasks EXCEPT ![n] = t]
    BY DEF Decide
  <1>5. tasks' \in [Names -> States]
    BY <1>1, <1>4 DEF TypeOK, States
  <1>6. \A m \in Names : /\ tasks'[m] # "none" => tasks[m] # "none"
                         /\ tasks'[m] = "done" => tasks[m] = "done"
    BY <1>1, <1>4 DEF TypeOK
  <1>7. at' = at /\ UNCHANGED <<server, disk, cache, run, defs, agenda, left, result, repeat, sent>>
    BY DEF Decide
  <1>. QED
    BY <1>1, <1>3, <1>5, <1>6, <1>7, WorkerStep

LEMMA UploadFailsStep == ASSUME Inv, NEW n \in Names, UploadFails(n) PROVE Inv'
  <1>1. TypeOK /\ at = "upload" /\ tasks[n] # "none"
    BY DEF Inv, UploadFails, InFlight
  <1>2. tasks' = [tasks EXCEPT ![n] = "failed"] /\ UNCHANGED <<at, listed>>
        /\ UNCHANGED <<server, disk, cache, run, defs, agenda, left, result, repeat, sent>>
    BY DEF UploadFails
  <1>3. tasks' \in [Names -> States]
    BY <1>1, <1>2 DEF TypeOK, States
  <1>4. \A m \in Names : /\ tasks'[m] # "none" => tasks[m] # "none"
                         /\ tasks'[m] = "done" => tasks[m] = "done"
    BY <1>1, <1>2 DEF TypeOK
  <1>5. listed' \in [Kinds -> (SUBSET Names) \cup {NoList}]
    BY <1>1, <1>2 DEF TypeOK
  <1>. QED
    BY <1>1, <1>2, <1>3, <1>4, <1>5, WorkerStep

LEMMA CollectStep == ASSUME Inv, Collect PROVE Inv'
  <1>1. at' = "record" /\ at = "upload" /\ UNCHANGED <<tasks, listed>>
        /\ UNCHANGED <<server, disk, cache, run, defs, agenda, left, result, repeat, sent>>
    BY DEF Collect
  <1>2. tasks' \in [Names -> States] /\ listed' \in [Kinds -> (SUBSET Names) \cup {NoList}]
    BY <1>1 DEF Inv, TypeOK, States
  <1>. QED
    BY <1>1, <1>2, WorkerStep

(* An upload sends what was generated: what is done was taken.             *)
LEMMA UploadStep == ASSUME Inv, NEW n \in Names, Upload(n) PROVE Inv'
  <1>1. TypeOK /\ at = "upload" /\ agenda # <<>> /\ tasks[n] # "none"
    BY DEF Inv, InCall, Upload, InFlight
  <1>2. kind \in Kinds
    BY <1>1, KindOfCall
  <1>3. defs[kind][n] \in Configs
    BY <1>1 DEF Inv, TasksAreGenerated
  <1>4. /\ server' = [server EXCEPT ![kind] = Put(@, n, defs[kind][n])]
        /\ sent' = [sent EXCEPT ![n] = @ \cup {defs[kind][n]}]
        /\ \E t \in {"done", "failed"} : tasks' = [tasks EXCEPT ![n] = t]
        /\ UNCHANGED <<disk, cache, at, run, defs, agenda, left, listed, result, repeat>>
    BY DEF Upload
  <1>5. TypeOK'
    <2>1. server' \in [Kinds -> Items]
      <3>1. server[kind] \in Items
        BY <1>1, <1>2 DEF TypeOK
      <3>2. Put(server[kind], n, defs[kind][n]) \in Items
        BY <1>3, <3>1 DEF Put, Items
      <3>. QED
        BY <1>1, <1>2, <1>4, <3>2 DEF TypeOK
    <2>2. sent' \in [Names -> SUBSET Configs]
      <3>1. sent[n] \cup {defs[kind][n]} \in SUBSET Configs
        BY <1>1, <1>3 DEF TypeOK
      <3>. QED
        BY <1>1, <1>4, <3>1 DEF TypeOK
    <2>3. tasks' \in [Names -> States]
      BY <1>1, <1>4 DEF TypeOK, States
    <2>. QED
      BY <1>1, <1>4, <2>1, <2>2, <2>3 DEF TypeOK, States
  <1>6. \A m \in Names : sent[m] \subseteq sent'[m]
    BY <1>1, <1>4 DEF TypeOK
  <1>7. CacheIsSent' /\ CacheNeverInvents'
    BY <1>4, <1>6 DEF Inv, CacheIsSent, CacheNeverInvents
  <1>8. kind' = kind
    BY <1>4 DEF kind
  <1>9. TasksAreGenerated'
    <2>1. defs[kind][n] \in sent'[n]
      BY <1>1, <1>4 DEF TypeOK
    <2>. QED
      BY <1>1, <1>4, <1>6, <1>8, <2>1 DEF Inv, TasksAreGenerated, TypeOK
  <1>. QED
    BY <1>1, <1>4, <1>5, <1>7, <1>9 DEF Inv, InCall, NotLoaded

(* A result that is "done" is recorded: it was taken, so the entry is      *)
(* honest.                                                                 *)
LEMMA RecordStep == ASSUME Inv, NEW n \in Names, Record(n) PROVE Inv'
  <1>1. TypeOK /\ at = "record" /\ agenda # <<>> /\ tasks[n] # "none"
    BY DEF Inv, InCall, Record, IsFirst, Unread
  <1>2. tasks' = [tasks EXCEPT ![n] = "none"]
        /\ UNCHANGED <<server, disk, run, defs, left, listed, repeat, sent>>
    BY DEF Record
  <1>3. tasks' \in [Names -> States] /\ listed' \in [Kinds -> (SUBSET Names) \cup {NoList}]
    BY <1>1, <1>2 DEF TypeOK, States
  <1>4. CASE tasks[n] = "done"
    <2>1. cache' = [cache EXCEPT ![n] = defs[kind][n]] /\ UNCHANGED <<at, agenda, result>>
      BY <1>4 DEF Record
    <2>2. defs[kind][n] \in Configs /\ defs[kind][n] \in sent[n]
      BY <1>1, <1>4 DEF Inv, TasksAreGenerated
    <2>3. TypeOK'
      BY <1>1, <1>2, <1>3, <2>1, <2>2 DEF TypeOK, States
    <2>4. CacheIsSent'
      BY <1>1, <1>2, <2>1, <2>2 DEF Inv, CacheIsSent, TypeOK
    <2>5. CacheNeverInvents'
      BY <1>2 DEF Inv, CacheNeverInvents
    <2>6. kind' = kind
      BY <2>1 DEF kind
    <2>7. TasksAreGenerated'
      BY <1>1, <1>2, <2>1, <2>6 DEF Inv, TasksAreGenerated, TypeOK
    <2>. QED
      BY <1>1, <2>1, <2>3, <2>4, <2>5, <2>7 DEF Inv, InCall, NotLoaded
  <1>5. CASE tasks[n] # "done"
    <2>1. Fail /\ UNCHANGED cache
      BY <1>5 DEF Record
    <2>2. server' \in [Kinds -> Items] /\ left' \subseteq Names
      BY <1>1, <1>2 DEF TypeOK
    <2>. QED
      BY <1>2, <1>3, <2>1, <2>2, FailStep
  <1>. QED
    BY <1>4, <1>5

(* A save copies the cache to the disk, and the call is over.              *)
LEMMA SaveStep ==
  ASSUME Inv, agenda # <<>>, MoveOn,
         UNCHANGED <<run, defs, tasks, repeat, sent>>,
         server' \in [Kinds -> Items],
         left' \subseteq Names,
         listed' \in [Kinds -> (SUBSET Names) \cup {NoList}],
         cache' \in {cache, Empty},
         disk' \in {disk, cache}
  PROVE  Inv'
  <1>1. TypeOK
    BY DEF Inv
  <1>2. /\ agenda' \in Seq(Calls)
        /\ at' \in {"exit", "call"}
        /\ at' = "call" => agenda' # <<>>
        /\ result' \in {"none", "ok", "failed"}
    BY <1>1, MoveOnType
  <1>3. TypeOK'
    BY <1>1, <1>2, EmptyType DEF TypeOK, Calls
  <1>4. CacheIsSent' /\ CacheNeverInvents'
    BY CacheStep, EmptyIsSent
  <1>. QED
    BY <1>2, <1>3, <1>4 DEF Inv, InCall, TasksAreGenerated, NotLoaded

LEMMA UpdateStep == ASSUME Inv, agenda # <<>>, Update PROVE Inv'
  <1>1. TypeOK
    BY DEF Inv
  <1>2. server \in [Kinds -> Items] /\ left \subseteq Names /\ tasks \in [Names -> States]
        /\ listed \in [Kinds -> (SUBSET Names) \cup {NoList}]
    BY <1>1 DEF TypeOK, States
  <1>3. CASE Filter
    BY <1>3, FilterStep
  <1>4. CASE FilterFails
    BY <1>2, <1>4, FailStep DEF FilterFails
  <1>5. ASSUME NEW n \in Names, Decide(n) \/ Upload(n) \/ UploadFails(n) \/ Record(n) PROVE Inv'
    BY <1>5, DecideStep, UploadStep, UploadFailsStep, RecordStep
  <1>6. CASE Collect
    BY <1>6, CollectStep
  <1>7. CASE SaveUpdated
    <2>1. CASE disk' = cache /\ MoveOn
      BY <1>2, <1>7, <2>1, SaveStep DEF SaveUpdated
    <2>2. CASE Fail /\ UNCHANGED disk
      BY <1>2, <1>7, <2>2, FailStep DEF SaveUpdated
    <2>. QED
      BY <1>7, <2>1, <2>2 DEF SaveUpdated
  <1>. QED
    BY <1>3, <1>4, <1>5, <1>6, <1>7 DEF Update

-----------------------------------------------------------------------------
(* The steps of the calls that delete.  A step within such a call:         *)
LEMMA DeletingStep ==
  ASSUME Inv, agenda # <<>>, at' = "deleting",
         UNCHANGED <<disk, run, defs, agenda, tasks, result, repeat, sent>>,
         server' \in [Kinds -> Items],
         cache' \in [Names -> Configs \cup {Blank, NoEntry}],
         \A n \in Names : cache'[n] \in Configs => cache'[n] = cache[n],
         left' \subseteq Names,
         listed' \in [Kinds -> (SUBSET Names) \cup {NoList}]
  PROVE  Inv'
  <1>1. TypeOK'
    BY DEF Inv, TypeOK
  <1>2. CacheIsSent' /\ CacheNeverInvents'
    BY CacheStep
  <1>. QED
    BY <1>1, <1>2 DEF Inv, InCall, TasksAreGenerated, NotLoaded

(* A request that deletes, with what the call has left to look at.         *)
LEMMA RemoveStep ==
  ASSUME Inv, agenda # <<>>, at = "deleting",
         NEW k \in Kinds, NEW n \in Names, RemoveRequest(k, n),
         UNCHANGED <<disk, cache, run, defs, tasks, repeat, sent>>,
         left' \subseteq Names,
         listed' \in [Kinds -> (SUBSET Names) \cup {NoList}]
  PROVE  Inv'
  <1>1. TypeOK /\ cache \in [Names -> Configs \cup {Blank, NoEntry}] /\ tasks \in [Names -> States]
    BY DEF Inv, TypeOK, States
  <1>2. server' \in [Kinds -> Items] /\ (UNCHANGED <<at, agenda, result>> \/ Fail)
    BY <1>1, RemoveType
  <1>3. CASE UNCHANGED <<at, agenda, result>>
    BY <1>1, <1>2, <1>3, DeletingStep
  <1>4. CASE Fail
    BY <1>1, <1>2, <1>4, FailStep
  <1>. QED
    BY <1>2, <1>3, <1>4

(* A list the server is asked for.                                         *)
LEMMA ListStep ==
  ASSUME Inv, agenda # <<>>, NEW k \in Kinds, Lists(k),
         NEW ns, ns \subseteq listed'[k], ListLeft(ns)
  PROVE  Inv'
  <1>1. TypeOK /\ cache \in [Names -> Configs \cup {Blank, NoEntry}] /\ tasks \in [Names -> States]
        /\ server \in [Kinds -> Items] /\ left \subseteq Names
    BY DEF Inv, TypeOK, States
  <1>2. listed' \in [Kinds -> (SUBSET Names) \cup {NoList}]
    BY <1>1, ListsType
  <1>3. listed'[k] \subseteq Names
    BY <1>1, JenkinsManagerAssumption
       DEF TypeOK, Lists, Existing, NoList, JenkinsManagerAssumption
  <1>4. CASE left' = ns /\ at' = "deleting" /\ UNCHANGED <<agenda, result>>
    BY <1>1, <1>2, <1>3, <1>4, DeletingStep DEF ListLeft
  <1>5. CASE Fail /\ UNCHANGED left
    BY <1>1, <1>2, <1>5, FailStep DEF ListLeft
  <1>. QED
    BY <1>4, <1>5 DEF ListLeft

LEMMA DeleteOldStep == ASSUME Inv, agenda # <<>>, DeleteOldManaged PROVE Inv'
  <1>1. TypeOK /\ kind \in Kinds
    BY KindOfCall DEF Inv
  <1>2. /\ server \in [Kinds -> Items]
        /\ left \subseteq Names
        /\ tasks \in [Names -> States]
        /\ cache \in [Names -> Configs \cup {Blank, NoEntry}]
        /\ listed \in [Kinds -> (SUBSET Names) \cup {NoList}]
    BY <1>1 DEF TypeOK, States
  <1>3. CASE ListOld
    BY <1>1, <1>3, ListStep DEF ListOld
  <1>4. CASE OldDeleted
    BY <1>2, <1>4, SaveStep DEF OldDeleted
  <1>5. ASSUME NEW n \in Names, DeleteOld(n) PROVE Inv'
    <2>1. /\ at = "deleting" /\ left' \subseteq Names
          /\ UNCHANGED <<disk, cache, run, defs, tasks, listed, repeat, sent>>
      BY <1>2, <1>5 DEF DeleteOld
    <2>2. CASE Obsolete(kind, n)
      <3>1. RemoveRequest(kind, n)
        BY <1>5, <2>2 DEF DeleteOld
      <3>. QED
        BY <1>1, <1>2, <2>1, <3>1, RemoveStep
    <2>3. CASE ~Obsolete(kind, n)
      <3>1. UNCHANGED server /\ (UNCHANGED <<at, agenda, result>> \/ Fail)
        BY <1>5, <2>3 DEF DeleteOld
      <3>2. CASE UNCHANGED <<at, agenda, result>>
        BY <1>2, <2>1, <3>1, <3>2, DeletingStep
      <3>3. CASE Fail
        BY <1>2, <2>1, <3>1, <3>3, FailStep
      <3>. QED
        BY <3>1, <3>2, <3>3
    <2>. QED
      BY <2>2, <2>3
  <1>. QED
    BY <1>3, <1>4, <1>5 DEF DeleteOldManaged

LEMMA DeleteStep == ASSUME Inv, agenda # <<>>, DeleteNamed PROVE Inv'
  <1>1. TypeOK /\ kind \in Kinds
    BY KindOfCall DEF Inv
  <1>2. /\ server \in [Kinds -> Items]
        /\ left \subseteq Names
        /\ tasks \in [Names -> States]
        /\ cache \in [Names -> Configs \cup {Blank, NoEntry}]
        /\ listed \in [Kinds -> (SUBSET Names) \cup {NoList}]
    BY <1>1 DEF TypeOK, States
  <1>3. CASE StartDelete
    <2>1. left' \subseteq Names
      <3>1. run.names \subseteq Names
        BY <1>1, JenkinsManagerAssumption
           DEF TypeOK, JenkinsManagerAssumption, CommandLine
      <3>. QED
        BY <1>3, <3>1 DEF StartDelete
    <2>. QED
      BY <1>2, <1>3, <2>1, DeletingStep DEF StartDelete
  <1>4. CASE SaveDeleted
    <2>1. CASE disk' = cache /\ MoveOn
      BY <1>2, <1>4, <2>1, SaveStep DEF SaveDeleted
    <2>2. CASE Fail /\ UNCHANGED disk
      BY <1>2, <1>4, <2>2, FailStep DEF SaveDeleted
    <2>. QED
      BY <1>4, <2>1, <2>2 DEF SaveDeleted
  <1>5. ASSUME NEW n \in Names, Delete(n) PROVE Inv'
    <2>1. /\ at = "deleting" /\ left' \subseteq Names
          /\ UNCHANGED <<disk, run, defs, tasks, repeat, sent>>
          /\ Lists(kind) \/ UNCHANGED listed
      BY <1>2, <1>5 DEF Delete
    <2>2. listed' \in [Kinds -> (SUBSET Names) \cup {NoList}]
      <3>1. CASE Lists(kind)
        BY <1>1, <3>1, ListsType
      <3>2. CASE UNCHANGED listed
        BY <1>1, <3>2 DEF TypeOK
      <3>. QED
        BY <2>1, <3>1, <3>2
    <2>3. /\ server' \in [Kinds -> Items]
          /\ UNCHANGED <<at, agenda, result>> \/ Fail
      <3>1. CASE RemoveRequest(kind, n)
        BY <1>1, <3>1, RemoveType
      <3>2. CASE UNCHANGED server /\ (UNCHANGED <<at, agenda, result>> \/ Fail)
        BY <1>2, <3>2
      <3>. QED
        BY <1>5, <3>1, <3>2 DEF Delete
    <2>4. cache' = [cache EXCEPT ![n] =
                       IF @ # NoEntry /\ at' = "deleting" THEN Blank ELSE @]
      BY <1>5 DEF Delete
    <2>5. CASE UNCHANGED <<at, agenda, result>>
      <3>1. cache' \in [Names -> Configs \cup {Blank, NoEntry}]
        BY <1>2, <2>4
      <3>2. \A m \in Names : cache'[m] \in Configs => cache'[m] = cache[m]
        BY <1>2, <2>4, JenkinsManagerAssumption DEF JenkinsManagerAssumption
      <3>. QED
        BY <2>1, <2>2, <2>3, <2>5, <3>1, <3>2, DeletingStep
    <2>6. CASE Fail
      <3>1. UNCHANGED cache
        BY <1>2, <2>4, <2>6 DEF Fail
      <3>. QED
        BY <1>2, <2>1, <2>2, <2>3, <2>6, <3>1, FailStep
    <2>. QED
      BY <2>3, <2>5, <2>6
  <1>. QED
    BY <1>3, <1>4, <1>5 DEF DeleteNamed

LEMMA DeleteAllStep ==
  ASSUME Inv, agenda # <<>>, delete_all_jobs \/ delete_all_views PROVE Inv'
  <1>1. TypeOK /\ kind \in Kinds
    BY KindOfCall DEF Inv
  <1>2. /\ server \in [Kinds -> Items]
        /\ left \subseteq Names
        /\ tasks \in [Names -> States]
        /\ cache \in [Names -> Configs \cup {Blank, NoEntry}]
        /\ listed \in [Kinds -> (SUBSET Names) \cup {NoList}]
    BY <1>1 DEF TypeOK, States
  <1>3. CASE delete_all_jobs
    <2>1. listed' \in [Kinds -> (SUBSET Names) \cup {NoList}]
      BY <1>1, <1>3, ListsType DEF delete_all_jobs
    <2>2. server' \in [Kinds -> Items]
      <3>1. RemoveAll \in Items
        BY DEF RemoveAll, Items
      <3>. QED
        BY <1>2, <1>3, <3>1 DEF delete_all_jobs
    <2>3. CASE cache' = Empty /\ MoveOn
      BY <1>2, <1>3, <2>1, <2>2, <2>3, SaveStep DEF delete_all_jobs
    <2>4. CASE Fail /\ UNCHANGED cache
      BY <1>2, <1>3, <2>1, <2>2, <2>4, FailStep DEF delete_all_jobs
    <2>. QED
      BY <1>3, <2>3, <2>4 DEF delete_all_jobs
  <1>4. CASE ListViews
    <2>1. PICK first : Lists(kind) /\ ListLeft(listed'[kind] \ {first})
      BY <1>4 DEF ListViews
    <2>2. listed'[kind] \ {first} \subseteq listed'[kind]
      OBVIOUS
    <2>. QED
      BY <1>1, <2>1, <2>2, ListStep
  <1>5. CASE ViewsDeleted
    BY <1>2, <1>5, SaveStep DEF ViewsDeleted
  <1>6. ASSUME NEW n \in Names, DeleteView(n) PROVE Inv'
    <2>1. "view" \in Kinds
      BY DEF Kinds
    <2>2. left' \subseteq Names
      BY <1>2, <1>6 DEF DeleteView
    <2>. QED
      BY <1>2, <1>6, <2>1, <2>2, RemoveStep DEF DeleteView
  <1>. QED
    BY <1>3, <1>4, <1>5, <1>6 DEF delete_all_views

(* The end of a command, or of its process.                                *)
LEMMA EndStep == ASSUME Inv, Exit \/ Unlock \/ Kill \/ RemoveOldFile PROVE Inv'
  <1>1. CASE Exit
    <2>1. TypeOK'
      BY <1>1 DEF Inv, TypeOK, Exit
    <2>2. CacheIsSent' /\ CacheNeverInvents'
      BY <1>1, CacheStep DEF Exit
    <2>. QED
      BY <1>1, <2>1, <2>2 DEF Exit, Inv, InCall, TasksAreGenerated, NotLoaded
  <1>2. CASE Unlock \/ Kill
    <2>1. /\ Forgotten
          /\ result' \in {"failed", result}
          /\ UNCHANGED <<server, disk, run, defs, repeat, sent>>
      BY <1>2 DEF Unlock, Kill
    <2>2. agenda' \in Seq(Calls) /\ at' = "idle"
      BY <2>1 DEF Forgotten
    <2>3. TypeOK'
      BY <2>1, <2>2, EmptyType DEF Inv, TypeOK, Forgotten, NoTasks, Unlisted, Calls
    <2>4. CacheIsSent' /\ CacheNeverInvents'
      BY <2>1, CacheStep, EmptyIsSent DEF Forgotten
    <2>. QED
      BY <2>1, <2>2, <2>3, <2>4
         DEF Forgotten, Inv, InCall, TasksAreGenerated, NotLoaded
  <1>3. CASE RemoveOldFile
    <2>1. disk' = Empty /\ UNCHANGED <<server, cache, at, run, defs, agenda, tasks, left,
                                      listed, result, repeat, sent>>
      BY <1>3 DEF RemoveOldFile
    <2>2. at \in {"record", "deleting", "exit"}
      BY <1>3 DEF RemoveOldFile, Saving
    <2>3. TypeOK' /\ InCall' /\ TasksAreGenerated' /\ CacheIsSent'
      BY <2>1, EmptyType DEF Inv, TypeOK, InCall, TasksAreGenerated, CacheIsSent, kind
    <2>4. CacheNeverInvents' /\ NotLoaded'
      BY <2>1, <2>2, EmptyIsSent DEF CacheNeverInvents, NotLoaded
    <2>. QED
      BY <2>3, <2>4 DEF Inv
  <1>. QED
    BY <1>1, <1>2, <1>3

LEMMA InvNext == Inv /\ [Next]_vars => Inv'
  <1>. SUFFICES ASSUME Inv, [Next]_vars PROVE Inv'
    OBVIOUS
  <1>1. CASE \E c \in Commands, d \in Definitions : Begin(c, d)
    BY <1>1, StartStep
  <1>2. CASE LoadCache \/ Generate
    BY <1>2, StartStep
  <1>3. CASE update_jobs \/ update_views
    BY <1>3, UpdateStep DEF update_jobs, update_views
  <1>4. CASE delete_old_managed_jobs \/ delete_old_managed_views
    BY <1>4, DeleteOldStep DEF delete_old_managed_jobs, delete_old_managed_views
  <1>5. CASE delete_jobs \/ delete_views
    BY <1>5, DeleteStep DEF delete_jobs, delete_views
  <1>6. CASE delete_all_jobs \/ delete_all_views
    <2>1. agenda # <<>>
      BY <1>6 DEF Inv, InCall, delete_all_jobs, delete_all_views, ListViews,
                  ViewsDeleted, DeleteView, Calling
    <2>. QED
      BY <1>6, <2>1, DeleteAllStep
  <1>7. CASE Exit \/ Unlock \/ Kill \/ RemoveOldFile
    BY <1>7, EndStep
  <1>8. CASE UNCHANGED vars
    BY <1>8 DEF vars, Inv, TypeOK, InCall, TasksAreGenerated, CacheIsSent,
                CacheNeverInvents, NotLoaded, kind
  <1>. QED
    BY <1>1, <1>2, <1>3, <1>4, <1>5, <1>6, <1>7, <1>8 DEF Next, Working, Call

-----------------------------------------------------------------------------
(* The invariant holds of every behaviour.                                 *)
THEOREM Invariance == Spec => []Inv
  BY InvInit, InvNext, PTL DEF Spec

(* Type correctness, for all command lines, definitions and faults.        *)
THEOREM TypeCorrect == Spec => []TypeOK
  <1>1. Inv => TypeOK
    BY DEF Inv
  <1>. QED
    BY <1>1, Invariance, PTL

(* The cache file never records an upload that did not happen, whichever   *)
(* requests fail and whenever the process is killed (builder.py:331-346).  *)
THEOREM CacheHonest == Spec => []CacheNeverInvents
  <1>1. Inv => CacheNeverInvents
    BY DEF Inv
  <1>. QED
    BY <1>1, Invariance, PTL

-----------------------------------------------------------------------------
(* The refinement of CacheStore.  What the manager does to the cache in    *)
(* one step, seen from the store: a running command stays the owner and    *)
(* sends, sets one entry, empties its copy, or saves.                      *)
Uses ==
    /\ at # "idle" /\ at' # "idle"
    /\ \/ UNCHANGED <<disk, cache>>
       \/ disk' = disk /\ cache' \in {disk, Empty}
       \/ disk' = disk /\ \E n \in Names, m \in Configs \cup {Blank} :
                               cache' = [cache EXCEPT ![n] = m]
       \/ disk' = cache /\ cache' = cache

LEMMA UsesIsAStep == Uses => [Store!StoreNext]_(Store!storeVars)
  <1>. SUFFICES ASSUME Uses PROVE [Store!StoreNext]_(Store!storeVars)
    OBVIOUS
  <1>1. at # "idle" /\ at' # "idle"
    BY DEF Uses
  <1>2. Store!EmptySnapshot = Empty
    BY DEF Store!EmptySnapshot, Empty
  <1>3. CASE UNCHANGED <<disk, cache>>
    BY <1>1, <1>3 DEF Store!storeVars
  <1>4. CASE disk' = disk /\ cache' \in {disk, Empty}
    <2>1. Store!Read
      BY <1>1, <1>2, <1>4 DEF Store!Read
    <2>. QED
      BY <2>1 DEF Store!StoreNext
  <1>5. CASE disk' = disk /\ \E n \in Names, m \in Configs \cup {Blank} :
                                cache' = [cache EXCEPT ![n] = m]
    <2>1. Store!Edit
      BY <1>1, <1>5 DEF Store!Edit
    <2>. QED
      BY <2>1 DEF Store!StoreNext
  <1>6. CASE disk' = cache /\ cache' = cache
    <2>1. Store!Commit
      BY <1>1, <1>6 DEF Store!Commit
    <2>. QED
      BY <2>1 DEF Store!StoreNext
  <1>. QED
    BY <1>3, <1>4, <1>5, <1>6 DEF Uses

LEMMA MoveOnKeepsRunning == MoveOn \/ Fail => at' # "idle"
  BY DEF MoveOn, Fail

LEMMA UpdateUses == ASSUME Inv, agenda # <<>>, Update PROVE Uses
  <1>1. TypeOK /\ kind \in Kinds
    BY KindOfCall DEF Inv
  <1>2. CASE Filter \/ FilterFails \/ Collect \/ SaveUpdated
    BY <1>2, MoveOnKeepsRunning
       DEF Filter, FilterFails, Collect, SaveUpdated, Calling, Uses
  <1>3. ASSUME NEW n \in Names, Decide(n) \/ Upload(n) \/ UploadFails(n) PROVE Uses
    BY <1>3 DEF Decide, Upload, UploadFails, Uses
  <1>4. ASSUME NEW n \in Names, Record(n) PROVE Uses
    <2>1. at = "record" /\ UNCHANGED disk /\ tasks[n] # "none"
      BY <1>4 DEF Record, IsFirst, Unread
    <2>2. CASE tasks[n] = "done"
      <3>1. defs[kind][n] \in Configs
        BY <2>1 DEF Inv, TasksAreGenerated
      <3>2. at' = at /\ cache' = [cache EXCEPT ![n] = defs[kind][n]]
        BY <1>4, <2>2 DEF Record
      <3>. QED
        BY <2>1, <3>1, <3>2 DEF Uses
    <2>3. CASE tasks[n] # "done"
      BY <1>4, <2>1, <2>3, MoveOnKeepsRunning DEF Record, Uses
    <2>. QED
      BY <2>2, <2>3
  <1>. QED
    BY <1>2, <1>3, <1>4 DEF Update

LEMMA DeleteUses ==
  ASSUME Inv, DeleteOldManaged \/ DeleteNamed \/ delete_all_jobs \/ delete_all_views
  PROVE  Uses
  <1>1. ASSUME NEW k, NEW n, RemoveRequest(k, n), at = "deleting" PROVE at' # "idle"
    BY <1>1, MoveOnKeepsRunning DEF RemoveRequest
  <1>2. ASSUME NEW ns, ListLeft(ns) PROVE at' # "idle" /\ UNCHANGED <<disk, cache>>
    BY <1>2, MoveOnKeepsRunning DEF ListLeft
  <1>3. CASE ListOld \/ ListViews
    BY <1>2, <1>3 DEF ListOld, ListViews, Calling, Uses
  <1>4. CASE OldDeleted \/ StartDelete \/ SaveDeleted \/ ViewsDeleted \/ delete_all_jobs
    BY <1>4, MoveOnKeepsRunning
       DEF OldDeleted, StartDelete, SaveDeleted, ViewsDeleted, delete_all_jobs,
           Calling, Uses
  <1>5. ASSUME NEW n \in Names, DeleteOld(n) \/ DeleteView(n) PROVE Uses
    BY <1>1, <1>5, MoveOnKeepsRunning DEF DeleteOld, DeleteView, Uses
  <1>6. ASSUME NEW n \in Names, Delete(n) PROVE Uses
    <2>1. at = "deleting" /\ UNCHANGED disk
      BY <1>6 DEF Delete
    <2>2. at' # "idle"
      BY <1>1, <1>6, <2>1, MoveOnKeepsRunning DEF Delete
    <2>3. cache \in [Names -> Configs \cup {Blank, NoEntry}]
      BY DEF Inv, TypeOK
    <2>4. cache' = [cache EXCEPT ![n] = Blank] \/ cache' = cache
      BY <1>6, <2>3 DEF Delete
    <2>. QED
      BY <2>1, <2>2, <2>4 DEF Uses
  <1>. QED
    BY <1>3, <1>4, <1>5, <1>6 DEF DeleteOldManaged, DeleteNamed, delete_all_views

LEMMA StoreInitially == Init => Store!StoreInit
  BY DEF Init, Empty, Store!StoreInit, Store!Snapshots, Store!EmptySnapshot

LEMMA StoreStep == Inv /\ [Next]_vars => [Store!StoreNext]_(Store!storeVars)
  <1>. SUFFICES ASSUME Inv, [Next]_vars
                PROVE  [Store!StoreNext]_(Store!storeVars)
    OBVIOUS
  <1>1. CASE \E c \in Commands, d \in Definitions : Begin(c, d)
    <2>1. Store!Acquire("jjb")
      BY <1>1 DEF Begin, Store!Acquire
    <2>. QED
      BY <2>1 DEF Store!StoreNext
  <1>2. CASE LoadCache \/ Generate \/ Exit
    <2>1. Uses
      BY <1>2, MoveOnKeepsRunning DEF LoadCache, Generate, Exit, Uses
    <2>. QED
      BY <2>1, UsesIsAStep
  <1>3. CASE Call
    <2>1. Uses
      BY <1>3, UpdateUses, DeleteUses
         DEF Call, update_jobs, update_views, delete_old_managed_jobs,
             delete_old_managed_views, delete_jobs, delete_views
    <2>. QED
      BY <2>1, UsesIsAStep
  <1>4. CASE Unlock \/ Kill
    <2>1. at # "idle" /\ at' = "idle" /\ cache' = Empty /\ disk' = disk
      BY <1>4 DEF Unlock, Kill, Forgotten
    <2>2. Store!EmptySnapshot = Empty
      BY DEF Store!EmptySnapshot, Empty
    <2>3. Store!Release
      BY <2>1, <2>2 DEF Store!Release
    <2>. QED
      BY <2>3 DEF Store!StoreNext
  <1>5. CASE UNCHANGED vars
    BY <1>5 DEF vars, Store!storeVars
  <1>6. CASE RemoveOldFile
    <2>1. at # "idle" /\ "rename" \in Faults /\ disk' = Empty /\ UNCHANGED <<at, cache>>
      BY <1>6 DEF RemoveOldFile, Saving
    <2>2. Store!EmptySnapshot = Empty
      BY DEF Store!EmptySnapshot, Empty
    <2>3. Store!Forget
      BY <2>1, <2>2 DEF Store!Forget
    <2>. QED
      BY <2>3 DEF Store!StoreNext
  <1>. QED
    BY <1>1, <1>2, <1>3, <1>4, <1>5, <1>6 DEF Next, Working

(* The manager uses the cache as CacheStore says a run does: it owns the   *)
(* store from its first read to its end, sets one entry at a time, and     *)
(* writes its whole copy (builder.py:227-245, 332-346; cache.py:43-145).   *)
THEOREM Refinement == Spec => UsesStore
  <1>1. Init => Store!StoreInit
    BY StoreInitially
  <1>2. Inv /\ [Next]_vars => [Store!StoreNext]_(Store!storeVars)
    BY StoreStep
  <1>. QED
    BY <1>1, <1>2, Invariance, PTL DEF Spec, UsesStore, Store!StoreSpec

-----------------------------------------------------------------------------
(* --existing-only: from the look at the server to the last upload, no job *)
(* that was seen goes away.                                                *)
SeenJobsStay ==
    at = "upload" /\ kind = "job" /\ run.existing_only =>
        \A n \in Names : tasks[n] # "none" => JobExists(n)

LEMMA SeenInit == Init => SeenJobsStay
  BY DEF Init, SeenJobsStay

LEMMA SeenNext == Inv /\ SeenJobsStay /\ [Next]_vars => SeenJobsStay'
  <1>. SUFFICES ASSUME Inv, SeenJobsStay, [Next]_vars, at' = "upload"
                PROVE  SeenJobsStay'
    BY DEF SeenJobsStay
  <1>1. TypeOK
    BY DEF Inv
  <1>2. CASE UNCHANGED vars
    BY <1>2 DEF vars, SeenJobsStay, kind, JobExists
  <1>3. CASE Filter
    <2>1. at = "call"
      BY <1>3 DEF Filter, Calling
    <2>2. /\ tasks' = [n \in Names |-> IF n \in ToUpdate(kind) THEN "queued" ELSE "none"]
          /\ UNCHANGED <<agenda, run, server>>
      BY <1>3, <2>1 DEF Filter, MoveOn
    <2>. QED
      BY <2>2 DEF SeenJobsStay, kind, JobExists, ToUpdate
  <1>4. ASSUME NEW n \in Names, Decide(n) PROVE SeenJobsStay'
    BY <1>1, <1>4 DEF Decide, IsFirst, SeenJobsStay, kind, JobExists, TypeOK
  <1>5. ASSUME NEW n \in Names, UploadFails(n) PROVE SeenJobsStay'
    BY <1>1, <1>5 DEF UploadFails, InFlight, SeenJobsStay, kind, JobExists, TypeOK
  <1>6. ASSUME NEW n \in Names, Upload(n) PROVE SeenJobsStay'
    <2>1. at = "upload" /\ tasks[n] # "none" /\ UNCHANGED <<run, agenda>>
      BY <1>6 DEF Upload, InFlight
    <2>2. defs[kind][n] \in Configs /\ defs[kind][n] # Absent
      BY <2>1, JenkinsAssumption DEF Inv, TasksAreGenerated, JenkinsAssumption
    <2>3. kind = "job" => server'["job"] = [server["job"] EXCEPT ![n] = defs[kind][n]]
      BY <1>1, <1>6 DEF Upload, Put, TypeOK, Kinds
    <2>4. \A m \in Names : m # n => tasks'[m] = tasks[m]
      BY <1>1, <1>6 DEF Upload, TypeOK
    <2>5. server \in [Kinds -> Items]
      BY <1>1 DEF TypeOK
    <2>. QED
      BY <2>1, <2>2, <2>3, <2>4, <2>5 DEF SeenJobsStay, kind, JobExists, Kinds, Items
  <1>7. ASSUME NEW n \in Names, Record(n) PROVE FALSE
    BY <1>7 DEF Record, Fail
  <1>8. CASE FilterFails \/ Collect \/ SaveUpdated
    BY <1>8 DEF FilterFails, Collect, SaveUpdated, Fail, MoveOn
  <1>9. CASE DeleteOldManaged \/ DeleteNamed \/ delete_all_jobs \/ delete_all_views
    <2>1. ASSUME NEW k, NEW n, RemoveRequest(k, n), at = "deleting" PROVE FALSE
      BY <2>1 DEF RemoveRequest, Fail
    <2>2. ASSUME NEW ns, ListLeft(ns) PROVE FALSE
      BY <2>2 DEF ListLeft, Fail
    <2>3. ASSUME NEW n \in Names, DeleteOld(n) \/ Delete(n) \/ DeleteView(n) PROVE FALSE
      BY <2>1, <2>3 DEF DeleteOld, Delete, DeleteView, Fail
    <2>4. CASE ListOld \/ ListViews
      BY <2>2, <2>4 DEF ListOld, ListViews
    <2>5. CASE OldDeleted \/ StartDelete \/ SaveDeleted \/ delete_all_jobs \/ ViewsDeleted
      BY <2>5 DEF OldDeleted, StartDelete, SaveDeleted, delete_all_jobs,
                  ViewsDeleted, MoveOn, Fail
    <2>. QED
      BY <1>9, <2>3, <2>4, <2>5 DEF DeleteOldManaged, DeleteNamed, delete_all_views
  <1>10. CASE Exit \/ Unlock \/ Kill \/ RemoveOldFile \/ LoadCache \/ Generate
    BY <1>10 DEF Exit, Unlock, Kill, RemoveOldFile, Saving, LoadCache, Generate, Forgotten,
                 Fail
  <1>11. CASE \E c \in Commands, d \in Definitions : Begin(c, d)
    BY <1>11 DEF Begin
  <1>. QED
    BY <1>2, <1>3, <1>4, <1>5, <1>6, <1>7, <1>8, <1>9, <1>10, <1>11
       DEF Next, Working, Call, update_jobs, update_views, Update,
           delete_old_managed_jobs, delete_old_managed_views, delete_jobs,
           delete_views

(* What a removal takes away was there.                                    *)
LEMMA RemovalCreatesNothing ==
  ASSUME TypeOK, NEW k \in Kinds, NEW n \in Names, RemoveRequest(k, n)
  PROVE  \A m \in Names : server["job"][m] = Absent => server'["job"][m] = Absent
  BY DEF TypeOK, RemoveRequest, Remove, Kinds

LEMMA CreatesNoJob ==
  ASSUME Inv, SeenJobsStay, [Next]_vars, run.existing_only,
         NEW m \in Names, server["job"][m] = Absent
  PROVE  server'["job"][m] = Absent
  <1>1. TypeOK
    BY DEF Inv
  <1>2. ASSUME NEW n \in Names, Upload(n) PROVE server'["job"][m] = Absent
    <2>1. at = "upload" /\ tasks[n] # "none"
      BY <1>2 DEF Upload, InFlight
    <2>2. server' = [server EXCEPT ![kind] = [@ EXCEPT ![n] = defs[kind][n]]]
      BY <1>2 DEF Upload, Put
    <2>3. kind = "job" => m # n
      BY <2>1 DEF SeenJobsStay, JobExists
    <2>4. server \in [Kinds -> Items]
      BY <1>1 DEF TypeOK
    <2>5. CASE kind = "job"
      BY <2>2, <2>3, <2>4, <2>5 DEF Kinds, Items
    <2>6. CASE kind # "job"
      BY <2>2, <2>4, <2>6 DEF Kinds
    <2>. QED
      BY <2>5, <2>6
  <1>3. ASSUME NEW n \in Names, DeleteOld(n) \/ Delete(n) PROVE server'["job"][m] = Absent
    <2>1. agenda # <<>>
      BY <1>3 DEF Inv, InCall, DeleteOld, Delete
    <2>2. kind \in Kinds
      BY <1>1, <2>1, KindOfCall
    <2>3. RemoveRequest(kind, n) \/ UNCHANGED server
      BY <1>3 DEF DeleteOld, Delete
    <2>. QED
      BY <1>1, <2>2, <2>3, RemovalCreatesNothing
  <1>4. ASSUME NEW n \in Names, DeleteView(n) PROVE server'["job"][m] = Absent
    BY <1>1, <1>4, RemovalCreatesNothing DEF DeleteView, Kinds
  <1>5. CASE delete_all_jobs
    BY <1>1, <1>5 DEF delete_all_jobs, RemoveAll, TypeOK, Kinds
  <1>6. CASE UNCHANGED server
    BY <1>6
  <1>7. CASE Filter \/ FilterFails \/ Collect \/ SaveUpdated
             \/ \E n \in Names : Decide(n) \/ UploadFails(n) \/ Record(n)
    BY <1>7 DEF Filter, FilterFails, Collect, SaveUpdated, Decide, UploadFails, Record
  <1>8. CASE ListOld \/ OldDeleted \/ StartDelete \/ SaveDeleted \/ ListViews \/ ViewsDeleted
    BY <1>8 DEF ListOld, OldDeleted, StartDelete, SaveDeleted, ListViews,
                ViewsDeleted, ListLeft
  <1>9. CASE Exit \/ Unlock \/ Kill \/ RemoveOldFile \/ LoadCache \/ Generate
             \/ \E c \in Commands, d \in Definitions : Begin(c, d)
    BY <1>9 DEF Exit, Unlock, Kill, RemoveOldFile, LoadCache, Generate, Begin
  <1>10. UNCHANGED vars => UNCHANGED server
    BY DEF vars
  <1>. QED
    BY <1>2, <1>3, <1>4, <1>5, <1>6, <1>7, <1>8, <1>9, <1>10
       DEF Next, Working, Call, update_jobs, update_views, Update,
           delete_old_managed_jobs, delete_old_managed_views, delete_jobs,
           delete_views, delete_all_views, DeleteOldManaged, DeleteNamed

(* With --existing-only no job is created (builder.py:318-323): the        *)
(* workers upload jobs the filter saw, and none of them goes away before.  *)
THEOREM ExistingOnly == Spec => ExistingOnlyCreatesNoJob
  <1>. DEFINE CreatesNone ==
                run.existing_only =>
                  \A n \in Names : server["job"][n] = Absent => server'["job"][n] = Absent
  <1>1. Inv /\ SeenJobsStay /\ [Next]_vars => [CreatesNone]_vars
    BY CreatesNoJob
  <1>2. Spec => []SeenJobsStay
    BY SeenInit, SeenNext, Invariance, PTL DEF Spec
  <1>. QED
    BY <1>1, <1>2, Invariance, PTL DEF Spec, ExistingOnlyCreatesNoJob

-----------------------------------------------------------------------------
(* What a whole command leaves behind: the agenda is what is left of the   *)
(* command's calls in their order, and what an update has gone through is  *)
(* recorded.                                                               *)
Busy == {"call", "upload", "record", "deleting"}

KindsOf(r) == {r.kinds[i] : i \in 1..Len(r.kinds)}

UpdateOf(k) == [call |-> "update", kind |-> k]

(* The calls a command makes, and the order of any two of them.            *)
CallOf(r, x) ==
    /\ x.kind \in KindsOf(r)
    /\ x.call = r.cmd \/ (r.cmd = "update" /\ r.delete_old /\ x.call = "delete_old")

InOrder(x, y) ==
    /\ x.call = y.call => x.kind = "job" /\ y.kind = "view"
    /\ x.call = "delete_old" => y.call = "delete_old"

IsAgendaOf(r, s) ==
    /\ \A i \in 1..Len(s) : CallOf(r, s[i])
    /\ \A i, j \in 1..Len(s) : i < j => InOrder(s[i], s[j])

AgendaOfRun ==
    /\ at \in Busy => IsAgendaOf(run, agenda)
    /\ at \in {"upload", "record"} => Head(agenda).call = "update"
    /\ at = "deleting" => Head(agenda).call # "update"

(* The update of the items of a kind is not over.                          *)
Pending(k) == \E i \in 1..Len(agenda) : agenda[i] = UpdateOf(k)

(* An update has nothing to do for a kind: what is wanted is recorded or   *)
(* is left out for want of a job.                                          *)
LeftOut(n) == run.existing_only /\ ~JobExists(n)
Recorded(k, digests) == \A n \in Wanted(k) : digests[n] = defs[k][n] \/ LeftOut(n)

UpdatesByCache == run.cmd = "update" /\ ~run.flush_cache /\ ~run.ignore_cache

(* What an update went through is recorded, and saved when it went well.   *)
RecordedSoFar ==
    UpdatesByCache =>
        /\ at \in {"generate", "call", "upload", "deleting"} => disk = cache
        /\ at \in Busy => \A k \in KindsOf(run) : Recorded(k, cache) \/ Pending(k)
        /\ at \in {"upload", "record"} =>
               \A n \in Wanted(kind) : tasks[n] # "none" \/ cache[n] = defs[kind][n] \/ LeftOut(n)
        /\ at = "exit" /\ result = "ok" => disk = cache
        /\ at \in {"exit", "unlock", "idle"} /\ result = "ok" =>
               \A k \in KindsOf(run) : Recorded(k, disk)

(* The same update again finds all recorded.                               *)
RecordedBefore ==
    UpdatesByCache /\ repeat =>
        /\ at \notin {"upload", "record"}
        /\ at \in {"loading", "generate"} => \A k \in KindsOf(run) : Recorded(k, disk)
        /\ at \in Busy => \A k \in KindsOf(run) : Recorded(k, cache)

DefsAreGiven == defs \in Definitions \cup {Nothing}

-----------------------------------------------------------------------------
LEMMA KindsOfRun ==
  ASSUME NEW r \in Commands
  PROVE  /\ r \in CommandLine
         /\ r.kinds \in Seq(Kinds) /\ Len(r.kinds) \in {1, 2}
         /\ Len(r.kinds) = 2 => r.kinds[1] = "job" /\ r.kinds[2] = "view"
         /\ KindsOf(r) \subseteq Kinds
  <1>1. r \in CommandLine
    BY JenkinsManagerAssumption DEF JenkinsManagerAssumption
  <1>2. r.kinds = <<"job">> \/ r.kinds = <<"view">> \/ r.kinds = <<"job", "view">>
    BY <1>1 DEF CommandLine
  <1>3. CASE r.kinds = <<"job">>
    BY <1>1, <1>3 DEF Kinds, KindsOf
  <1>4. CASE r.kinds = <<"view">>
    BY <1>1, <1>4 DEF Kinds, KindsOf
  <1>5. CASE r.kinds = <<"job", "view">>
    BY <1>1, <1>5 DEF Kinds, KindsOf
  <1>. QED
    BY <1>2, <1>3, <1>4, <1>5

(* The calls of one sort are made for the kinds of the command, in order.  *)
LEMMA EachCall ==
  ASSUME NEW r \in Commands, NEW c
  PROVE  /\ Each(c, r.kinds) \in Seq([call : {c}, kind : KindsOf(r)])
         /\ Len(Each(c, r.kinds)) = Len(r.kinds)
         /\ \A i \in 1..Len(r.kinds) : Each(c, r.kinds)[i] = [call |-> c, kind |-> r.kinds[i]]
  <1>1. Len(r.kinds) \in Nat
    BY KindsOfRun
  <1>2. \A i \in 1..Len(r.kinds) : r.kinds[i] \in KindsOf(r)
    BY DEF KindsOf
  <1>3. Each(c, r.kinds) = [i \in 1..Len(r.kinds) |-> [call |-> c, kind |-> r.kinds[i]]]
    BY DEF Each
  <1>4. \A i \in 1..Len(r.kinds) : [call |-> c, kind |-> r.kinds[i]] \in [call : {c}, kind : KindsOf(r)]
    BY <1>2
  <1>5. Each(c, r.kinds) \in Seq([call : {c}, kind : KindsOf(r)]) /\ Len(Each(c, r.kinds)) = Len(r.kinds)
    BY <1>1, <1>3, <1>4
  <1>6. \A i \in 1..Len(r.kinds) : Each(c, r.kinds)[i] = [call |-> c, kind |-> r.kinds[i]]
    BY <1>3
  <1>. QED
    BY <1>5, <1>6

(* The agenda a command starts with.                                       *)
LEMMA AgendaStarts ==
  ASSUME NEW r \in Commands
  PROVE  /\ IsAgendaOf(r, Agenda(r))
         /\ r.cmd = "update" =>
                \A k \in KindsOf(r) : \E i \in 1..Len(Agenda(r)) : Agenda(r)[i] = UpdateOf(k)
  <1>. DEFINE l == Len(r.kinds)
              first == Each(r.cmd, r.kinds)
              old == Each("delete_old", r.kinds)
              deletes == r.cmd = "update" /\ r.delete_old
              second == IF deletes THEN old ELSE <<>>
              All == [call : {r.cmd, "delete_old"}, kind : KindsOf(r)]
  <1>1. Agenda(r) = first \o second
    BY DEF Agenda
  <1>2. l \in {1, 2} /\ Len(first) = l /\ Len(old) = l
    BY EachCall, KindsOfRun
  <1>3. first \in Seq(All) /\ old \in Seq(All)
    <2>1. first \in Seq([call : {r.cmd}, kind : KindsOf(r)])
          /\ old \in Seq([call : {"delete_old"}, kind : KindsOf(r)])
      BY EachCall
    <2>2. [call : {r.cmd}, kind : KindsOf(r)] \subseteq All
          /\ [call : {"delete_old"}, kind : KindsOf(r)] \subseteq All
      OBVIOUS
    <2>. HIDE DEF All, first, old
    <2>. QED
      BY <2>1, <2>2, SeqMonotonic
  <1>4. \A i \in 1..l : /\ r.kinds[i] \in KindsOf(r)
                        /\ first[i] = [call |-> r.cmd, kind |-> r.kinds[i]]
                        /\ old[i] = [call |-> "delete_old", kind |-> r.kinds[i]]
    BY EachCall DEF KindsOf
  <1>5. l = 2 => r.kinds[1] = "job" /\ r.kinds[2] = "view"
    BY KindsOfRun
  <1>6. r.cmd # "delete_old"
    BY KindsOfRun DEF CommandLine
  <1>7. CASE deletes
    <2>1. /\ Agenda(r) = first \o old
          /\ r.cmd = "update" /\ r.delete_old
      BY <1>1, <1>7
    <2>. HIDE DEF first, old, deletes, second, l, All
    <2>2. /\ Len(Agenda(r)) = l + l
          /\ \A i \in 1..(l + l) : Agenda(r)[i] = IF i <= l THEN first[i] ELSE old[i - l]
      BY <2>1, <1>2, <1>3
    <2>3. CASE l = 1
      <3>1. Len(Agenda(r)) = 2 /\ Agenda(r)[1] = first[1] /\ Agenda(r)[2] = old[1]
        BY <2>2, <2>3
      <3>2. first[1].call = "update" /\ old[1].call = "delete_old" /\ first[1] = UpdateOf(r.kinds[1])
        BY <1>4, <2>1, <2>3 DEF UpdateOf
      <3>3. first[1].kind \in KindsOf(r) /\ old[1].kind \in KindsOf(r)
        BY <1>4, <2>3
      <3>4. \A k \in KindsOf(r) : k = r.kinds[1]
        BY <2>3 DEF KindsOf, l
      <3>. QED
        BY <2>1, <3>1, <3>2, <3>3, <3>4 DEF IsAgendaOf, CallOf, InOrder
    <2>4. CASE l = 2
      <3>1. /\ Len(Agenda(r)) = 4
            /\ Agenda(r)[1] = first[1] /\ Agenda(r)[2] = first[2]
            /\ Agenda(r)[3] = old[1] /\ Agenda(r)[4] = old[2]
        BY <2>2, <2>4
      <3>2. /\ first[1] = UpdateOf("job") /\ first[2] = UpdateOf("view")
            /\ old[1].call = "delete_old" /\ old[1].kind = "job"
            /\ old[2].call = "delete_old" /\ old[2].kind = "view"
        BY <1>4, <1>5, <2>1, <2>4 DEF UpdateOf
      <3>3. "job" \in KindsOf(r) /\ "view" \in KindsOf(r)
        BY <1>4, <1>5, <2>4
      <3>4. \A k \in KindsOf(r) : k \in {"job", "view"}
        BY KindsOfRun DEF Kinds
      <3>. QED
        BY <2>1, <3>1, <3>2, <3>3, <3>4 DEF IsAgendaOf, CallOf, InOrder, UpdateOf
    <2>. QED
      BY <1>2, <2>3, <2>4
  <1>8. CASE ~deletes
    <2>1. Agenda(r) = first
      <3>1. Agenda(r) = first \o <<>>
        BY <1>1, <1>8
      <3>. HIDE DEF first, All, deletes
      <3>. QED
        BY <3>1, <1>3
    <2>. HIDE DEF first, old, deletes, second, l, All
    <2>2. CASE l = 1
      <3>1. Len(Agenda(r)) = 1 /\ Agenda(r)[1] = first[1]
        BY <1>2, <2>1, <2>2
      <3>2. first[1] = [call |-> r.cmd, kind |-> r.kinds[1]] /\ r.kinds[1] \in KindsOf(r)
        BY <1>4, <2>2
      <3>3. \A k \in KindsOf(r) : k = r.kinds[1]
        BY <2>2 DEF KindsOf, l
      <3>. QED
        BY <3>1, <3>2, <3>3 DEF IsAgendaOf, CallOf, InOrder, UpdateOf
    <2>3. CASE l = 2
      <3>1. Len(Agenda(r)) = 2 /\ Agenda(r)[1] = first[1] /\ Agenda(r)[2] = first[2]
        BY <1>2, <2>1, <2>3
      <3>2. /\ first[1] = [call |-> r.cmd, kind |-> "job"]
            /\ first[2] = [call |-> r.cmd, kind |-> "view"]
            /\ "job" \in KindsOf(r) /\ "view" \in KindsOf(r)
        BY <1>4, <1>5, <2>3
      <3>3. \A k \in KindsOf(r) : k \in {"job", "view"}
        BY KindsOfRun DEF Kinds
      <3>. QED
        BY <1>6, <3>1, <3>2, <3>3 DEF IsAgendaOf, CallOf, InOrder, UpdateOf
    <2>. QED
      BY <1>2, <2>2, <2>3
  <1>. QED
    BY <1>7, <1>8

(* What is left of it after the first call.                                *)
LEMMA AgendaShrinks ==
  ASSUME TypeOK, agenda # <<>>, IsAgendaOf(run, agenda), MoveOn
  PROVE  /\ IsAgendaOf(run, agenda')
         /\ \A k : Pending(k) => Pending(k)' \/ Head(agenda) = UpdateOf(k)
         /\ at' = "exit" => agenda' = <<>> /\ result' = "ok"
         /\ at' = "call" => result' = result
         /\ at' \in {"exit", "call"}
         /\ \A i \in 1..Len(agenda') : InOrder(Head(agenda), agenda'[i]) /\ agenda'[i].kind \in Kinds
  <1>1. agenda \in Seq(Calls) /\ Len(agenda) \in Nat /\ Len(agenda) > 0
    BY EmptySeq, LenProperties DEF TypeOK, Calls
  <1>2. /\ agenda' = Tail(agenda) /\ Len(agenda') = Len(agenda) - 1
        /\ \A i \in 1..Len(agenda') : agenda'[i] = agenda[i + 1]
    BY <1>1, HeadTailProperties DEF MoveOn
  <1>3. Head(agenda) = agenda[1]
    BY <1>1
  <1>4. \A i \in 1..Len(agenda') : i + 1 \in 1..Len(agenda) /\ 1 \in 1..Len(agenda) /\ 1 < i + 1
    BY <1>1, <1>2
  <1>5. IsAgendaOf(run, agenda')
    BY <1>1, <1>2 DEF IsAgendaOf
  <1>6. ASSUME NEW k, Pending(k), Head(agenda) # UpdateOf(k) PROVE Pending(k)'
    <2>1. PICK i \in 1..Len(agenda) : agenda[i] = UpdateOf(k)
      BY <1>6 DEF Pending
    <2>2. i - 1 \in 1..Len(agenda') /\ agenda'[i - 1] = UpdateOf(k)
      BY <1>1, <1>2, <1>3, <1>6, <2>1
    <2>. QED
      BY <2>2 DEF Pending, UpdateOf
  <1>7. \A i \in 1..Len(agenda') : InOrder(Head(agenda), agenda'[i])
    BY <1>2, <1>3, <1>4 DEF IsAgendaOf
  <1>8. \A i \in 1..Len(agenda') : agenda'[i].kind \in Kinds
    <2>1. \A i \in 1..Len(agenda) : agenda[i] \in Calls
      BY <1>1, ElementOfSeq
    <2>. QED
      BY <1>2, <1>4, <2>1 DEF Calls
  <1>9. Len(agenda) = 1 => agenda' = <<>>
    BY <1>1, <1>2
  <1>. QED
    BY <1>5, <1>6, <1>7, <1>8, <1>9 DEF MoveOn

-----------------------------------------------------------------------------
(* The steps there are, those of a call with its head.                     *)
LEMMA StepCases ==
  ASSUME Inv, [Next]_vars
  PROVE  \/ UNCHANGED vars
         \/ \E c \in Commands, d \in Definitions : Begin(c, d)
         \/ LoadCache \/ Generate \/ Exit \/ Unlock \/ Kill \/ RemoveOldFile
         \/ /\ at \in Busy /\ agenda # <<>> /\ kind \in Kinds /\ Head(agenda) \in Calls
            /\ \/ Update \/ DeleteOldManaged \/ DeleteNamed
               \/ delete_all_jobs \/ delete_all_views
  <1>1. CASE Call
    <2>1. Update \/ DeleteOldManaged \/ DeleteNamed \/ delete_all_jobs \/ delete_all_views
      BY <1>1 DEF Call, update_jobs, update_views, delete_old_managed_jobs,
                  delete_old_managed_views, delete_jobs, delete_views
    <2>2. at \in Busy
      <3>1. Update => at \in Busy
        BY DEF Update, Filter, FilterFails, Decide, Upload, UploadFails, Record, Collect,
               SaveUpdated, Calling, Busy
      <3>2. DeleteOldManaged \/ DeleteNamed => at \in Busy
        BY DEF DeleteOldManaged, ListOld, OldDeleted, DeleteOld, DeleteNamed, StartDelete,
               SaveDeleted, Delete, Calling, Busy
      <3>3. delete_all_jobs \/ delete_all_views => at \in Busy
        BY DEF delete_all_jobs, delete_all_views, ListViews, ViewsDeleted, DeleteView,
               Calling, Busy
      <3>. QED
        BY <2>1, <3>1, <3>2, <3>3
    <2>3. TypeOK /\ agenda # <<>>
      BY <2>2 DEF Inv, InCall, Busy
    <2>. QED
      BY <2>1, <2>2, <2>3, KindOfCall
  <1>. QED
    BY <1>1 DEF Next, Working

(* What a step of a call does to the command: it starts to upload or to    *)
(* delete, goes on, is over, or fails.                                     *)
Starts ==
    /\ UNCHANGED <<agenda, result>>
    /\ \/ at = "call" /\ at' = "upload" /\ Head(agenda).call = "update"
       \/ at = "call" /\ at' = "deleting" /\ Head(agenda).call # "update"
       \/ at = "upload" /\ at' = "record"
       \/ at' = at

LEMMA CallControl ==
  ASSUME Inv, agenda # <<>>,
         Update \/ DeleteOldManaged \/ DeleteNamed \/ delete_all_jobs \/ delete_all_views
  PROVE  /\ UNCHANGED <<run, defs, repeat>>
         /\ Starts \/ MoveOn \/ Fail
  <1>1. CASE Update
    <2>1. Filter \/ FilterFails \/ Collect \/ SaveUpdated => UNCHANGED <<run, defs, repeat>> /\ (Starts \/ MoveOn \/ Fail)
      BY DEF Filter, FilterFails, Collect, SaveUpdated, Calling, Starts
    <2>2. ASSUME NEW n \in Names, Decide(n) \/ Upload(n) \/ UploadFails(n) \/ Record(n)
          PROVE  UNCHANGED <<run, defs, repeat>> /\ (Starts \/ Fail)
      BY <2>2 DEF Decide, Upload, UploadFails, Record, Starts
    <2>. QED
      BY <1>1, <2>1, <2>2 DEF Update
  <1>2. CASE DeleteOldManaged
    <2>1. ListOld \/ OldDeleted => UNCHANGED <<run, defs, repeat>> /\ (Starts \/ MoveOn \/ Fail)
      BY DEF ListOld, OldDeleted, ListLeft, Calling, Starts
    <2>2. ASSUME NEW n \in Names, DeleteOld(n)
          PROVE  UNCHANGED <<run, defs, repeat>> /\ (Starts \/ Fail)
      BY <2>2 DEF DeleteOld, RemoveRequest, Starts
    <2>. QED
      BY <1>2, <2>1, <2>2 DEF DeleteOldManaged
  <1>3. CASE DeleteNamed
    <2>1. StartDelete \/ SaveDeleted => UNCHANGED <<run, defs, repeat>> /\ (Starts \/ MoveOn \/ Fail)
      BY DEF StartDelete, SaveDeleted, Calling, Starts
    <2>2. ASSUME NEW n \in Names, Delete(n)
          PROVE  UNCHANGED <<run, defs, repeat>> /\ (Starts \/ Fail)
      BY <2>2 DEF Delete, RemoveRequest, Starts
    <2>. QED
      BY <1>3, <2>1, <2>2 DEF DeleteNamed
  <1>4. CASE delete_all_jobs
    BY <1>4 DEF delete_all_jobs
  <1>5. CASE delete_all_views
    <2>1. ListViews \/ ViewsDeleted => UNCHANGED <<run, defs, repeat>> /\ (Starts \/ MoveOn \/ Fail)
      BY DEF ListViews, ViewsDeleted, ListLeft, Calling, Starts
    <2>2. ASSUME NEW n \in Names, DeleteView(n)
          PROVE  UNCHANGED <<run, defs, repeat>> /\ (Starts \/ Fail)
      BY <2>2 DEF DeleteView, RemoveRequest, Starts
    <2>. QED
      BY <1>5, <2>1, <2>2 DEF delete_all_views
  <1>. QED
    BY <1>1, <1>2, <1>3, <1>4, <1>5

LEMMA EmptyAgenda == ASSUME NEW r PROVE IsAgendaOf(r, <<>>)
  BY DEF IsAgendaOf

(* Any command: its agenda is what is left of its calls.                   *)
LEMMA AgendaNext == Inv /\ AgendaOfRun /\ [Next]_vars => AgendaOfRun'
  <1>. SUFFICES ASSUME Inv, AgendaOfRun, [Next]_vars PROVE AgendaOfRun'
    OBVIOUS
  <1>1. TypeOK /\ run \in Commands
    BY DEF Inv, TypeOK
  <1>2. CASE UNCHANGED vars
    BY <1>2 DEF vars, AgendaOfRun
  <1>3. CASE LoadCache \/ Exit \/ Unlock \/ Kill \/ RemoveOldFile \/ \E c \in Commands, d \in Definitions : Begin(c, d)
    BY <1>3 DEF LoadCache, Exit, Unlock, Kill, RemoveOldFile, Begin, Forgotten, AgendaOfRun, Busy
  <1>4. CASE Generate
    BY <1>1, <1>4, AgendaStarts, EmptyAgenda DEF Generate, Fail, AgendaOfRun, Busy
  <1>5. CASE /\ at \in Busy /\ agenda # <<>>
             /\ Update \/ DeleteOldManaged \/ DeleteNamed \/ delete_all_jobs \/ delete_all_views
    <2>1. UNCHANGED run /\ (Starts \/ MoveOn \/ Fail)
      BY <1>5, CallControl
    <2>2. IsAgendaOf(run, agenda)
      BY <1>5 DEF AgendaOfRun
    <2>3. CASE Starts
      BY <2>1, <2>2, <2>3, <1>5 DEF Starts, AgendaOfRun, Busy
    <2>4. CASE MoveOn
      <3>1. at' \in {"call", "exit"} /\ IsAgendaOf(run, agenda')
        BY <1>1, <1>5, <2>2, <2>4, AgendaShrinks
      <3>2. IsAgendaOf(run', agenda')
        BY <2>1, <3>1
      <3>. QED
        BY <3>1, <3>2 DEF AgendaOfRun, Busy
    <2>5. CASE Fail
      BY <2>5 DEF Fail, AgendaOfRun, Busy
    <2>. QED
      BY <2>1, <2>3, <2>4, <2>5
  <1>. QED
    BY <1>2, <1>3, <1>4, <1>5, StepCases

LEMMA AgendaInvariant == Spec => []AgendaOfRun
  <1>1. Init => AgendaOfRun
    BY DEF Init, AgendaOfRun, Busy
  <1>. QED
    BY <1>1, AgendaNext, Invariance, PTL DEF Spec

LEMMA DefsInvariant == Spec => []DefsAreGiven
  <1>1. Init => DefsAreGiven
    BY DEF Init, DefsAreGiven
  <1>2. Inv /\ DefsAreGiven /\ [Next]_vars => DefsAreGiven'
    <2>. SUFFICES ASSUME Inv, DefsAreGiven, [Next]_vars PROVE DefsAreGiven'
      OBVIOUS
    <2>1. CASE \E c \in Commands, d \in Definitions : Begin(c, d)
      BY <2>1 DEF Begin, DefsAreGiven
    <2>2. CASE UNCHANGED defs
      BY <2>2 DEF DefsAreGiven
    <2>. QED
      BY <2>1, <2>2, StepCases, CallControl
         DEF vars, LoadCache, Generate, Exit, Unlock, Kill, RemoveOldFile
  <1>. QED
    BY <1>1, <1>2, Invariance, PTL DEF Spec

-----------------------------------------------------------------------------
(* The calls of an update: what a step of one does, seen from the cache.   *)
OldStep ==
    /\ at \in {"call", "deleting"} /\ at' = "deleting"
    /\ UNCHANGED <<disk, cache, run, defs, agenda, tasks, result, repeat, sent>>

LEMMA UpdateSteps ==
  ASSUME Inv, AgendaOfRun, agenda # <<>>, at \in Busy, run.cmd = "update",
         Update \/ DeleteOldManaged \/ DeleteNamed \/ delete_all_jobs \/ delete_all_views
  PROVE  \/ Fail
         \/ Filter
         \/ \E n \in Names : Decide(n) \/ Upload(n) \/ UploadFails(n)
         \/ \E n \in Names : Record(n) /\ tasks[n] = "done"
         \/ Collect
         \/ SaveUpdated /\ disk' = cache /\ MoveOn
         \/ OldStep /\ (UNCHANGED server \/ \E n \in Names : DeleteOld(n) /\ Obsolete(kind, n))
         \/ OldDeleted
  <1>1. Head(agenda).call \in {"update", "delete_old"}
    <2>1. agenda \in Seq(Calls) /\ Len(agenda) > 0 /\ Head(agenda) = agenda[1]
      BY EmptySeq, LenProperties DEF Inv, TypeOK, Calls
    <2>2. CallOf(run, agenda[1])
      BY <2>1 DEF AgendaOfRun, IsAgendaOf
    <2>. QED
      BY <2>1, <2>2 DEF CallOf
  <1>2. CASE Update
    <2>1. ASSUME NEW n \in Names, Record(n), tasks[n] # "done" PROVE Fail
      BY <2>1 DEF Record
    <2>. QED
      BY <1>2, <2>1 DEF Update, FilterFails, SaveUpdated
  <1>3. CASE DeleteOldManaged
    <2>1. CASE ListOld
      BY <2>1 DEF ListOld, ListLeft, OldStep, Calling
    <2>2. ASSUME NEW n \in Names, DeleteOld(n)
          PROVE  Fail \/ (OldStep /\ (UNCHANGED server \/ Obsolete(kind, n)))
      BY <2>2 DEF DeleteOld, RemoveRequest, OldStep
    <2>. QED
      BY <1>3, <2>1, <2>2 DEF DeleteOldManaged
  <1>4. ~DeleteNamed /\ ~delete_all_jobs /\ ~delete_all_views
    BY <1>1 DEF DeleteNamed, StartDelete, Delete, SaveDeleted, delete_all_jobs,
                delete_all_views, ListViews, DeleteView, ViewsDeleted, Calling
  <1>. QED
    BY <1>2, <1>3, <1>4

(* What is left out stays so while the command runs: no job is created.    *)
LEMMA LeftOutStays ==
  ASSUME Inv, SeenJobsStay, [Next]_vars, UNCHANGED run, NEW n \in Names, LeftOut(n)
  PROVE  LeftOut(n)'
  <1>1. server["job"][n] = Absent
    BY DEF LeftOut, JobExists
  <1>2. server'["job"][n] = Absent
    BY <1>1, CreatesNoJob DEF LeftOut
  <1>. QED
    BY <1>2 DEF LeftOut, JobExists

LEMMA WantedNames == ASSUME TypeOK, NEW k PROVE Wanted(k) \subseteq Names
  BY JenkinsManagerAssumption DEF TypeOK, JenkinsManagerAssumption, CommandLine, Wanted

LEMMA RecordedStays ==
  ASSUME Inv, SeenJobsStay, [Next]_vars, UNCHANGED <<run, defs>>,
         NEW k, NEW c, NEW d, \A n \in Names : c[n] = defs[k][n] => d[n] = c[n],
         Recorded(k, c)
  PROVE  \A n \in Wanted(k)' : d[n] = defs'[k][n] \/ LeftOut(n)'
  <1>1. Wanted(k)' = Wanted(k) /\ Wanted(k) \subseteq Names
    BY WantedNames DEF Inv, Wanted
  <1>. QED
    BY <1>1, LeftOutStays DEF Recorded

(* A kind nothing of which is to be updated is recorded.                   *)
LEMMA NothingToUpdate ==
  ASSUME TypeOK, ~run.ignore_cache, NEW k
  PROVE  \A n \in Wanted(k) \ ToUpdate(k) : cache[n] = defs[k][n] \/ LeftOut(n)
  BY DEF ToUpdate, Changed, LeftOut

(* Inv with what is known of the agenda, the jobs seen and the definitions. *)
FullInv == Inv /\ AgendaOfRun /\ SeenJobsStay /\ DefsAreGiven

LEMMA FullInvariant == Spec => []FullInv
  <1>1. Spec => []SeenJobsStay
    BY SeenInit, SeenNext, Invariance, PTL DEF Spec
  <1>2. FullInv <=> Inv /\ AgendaOfRun /\ SeenJobsStay /\ DefsAreGiven
    BY DEF FullInv
  <1>. QED
    BY <1>1, <1>2, Invariance, AgendaInvariant, DefsInvariant, PTL

(* The head of the agenda during the calls of an update.                   *)
LEMMA HeadOfUpdate ==
  ASSUME FullInv, agenda # <<>>, at \in Busy
  PROVE  /\ kind \in KindsOf(run) /\ kind \in Kinds
         /\ Head(agenda).call = "update" => Head(agenda) = UpdateOf(kind) /\ Pending(kind)
         /\ Head(agenda).call # "update" => \A k : Head(agenda) # UpdateOf(k)
  <1>1. agenda \in Seq(Calls) /\ Len(agenda) \in Nat /\ Len(agenda) > 0 /\ Head(agenda) = agenda[1]
    BY EmptySeq, LenProperties DEF FullInv, Inv, TypeOK, Calls
  <1>2. agenda[1] \in Calls /\ CallOf(run, agenda[1])
    BY <1>1 DEF FullInv, AgendaOfRun, IsAgendaOf
  <1>3. kind \in KindsOf(run) /\ kind \in Kinds
    BY <1>1, <1>2 DEF CallOf, kind, Calls
  <1>4. Head(agenda).call = "update" => Head(agenda) = UpdateOf(kind)
    BY <1>1, <1>2 DEF UpdateOf, kind, Calls
  <1>5. Head(agenda) = UpdateOf(kind) => Pending(kind)
    BY <1>1 DEF Pending
  <1>. QED
    BY <1>3, <1>4, <1>5 DEF UpdateOf

(* A call of an update is over: each kind is recorded or still to come.    *)
LEMMA CallIsOver ==
  ASSUME FullInv, RecordedSoFar, [Next]_vars, agenda # <<>>, at \in Busy,
         UpdatesByCache, MoveOn, UNCHANGED <<run, defs>>,
         cache' = cache, disk' = cache,
         Head(agenda) = UpdateOf(kind) => Recorded(kind, cache)
  PROVE  RecordedSoFar'
  <1>1. /\ \A k : Pending(k) => Pending(k)' \/ Head(agenda) = UpdateOf(k)
        /\ at' = "exit" => agenda' = <<>> /\ result' = "ok"
        /\ at' \in {"exit", "call"}
    BY AgendaShrinks DEF FullInv, Inv, AgendaOfRun
  <1>2. \A k \in KindsOf(run) : Recorded(k, cache) \/ Pending(k)'
    <2>1. \A k : Head(agenda) = UpdateOf(k) => k = kind
      BY DEF UpdateOf, kind
    <2>. QED
      BY <1>1, <2>1 DEF RecordedSoFar
  <1>3. \A k : Recorded(k, cache) => Recorded(k, cache)' /\ Recorded(k, disk)'
    BY RecordedStays DEF FullInv, Recorded
  <1>4. at' = "exit" => \A k : ~Pending(k)'
    BY <1>1 DEF Pending
  <1>. QED
    BY <1>1, <1>2, <1>3, <1>4 DEF RecordedSoFar, KindsOf

LEMMA RecordedSoFarNext ==
  ASSUME OneKindPerName, RenamesReplace, FullInv, RecordedSoFar, [Next]_vars
  PROVE  RecordedSoFar'
  <1>. USE DEF FullInv
  <1>0. SUFFICES ASSUME UpdatesByCache' PROVE RecordedSoFar'
    BY DEF RecordedSoFar
  <1>1. TypeOK /\ run \in Commands
    BY DEF Inv, TypeOK
  <1>2. CASE UNCHANGED vars
    BY <1>2 DEF vars, RecordedSoFar, Recorded, Pending, LeftOut, JobExists, Wanted,
                UpdatesByCache, kind
  <1>3. CASE \E c \in Commands, d \in Definitions : Begin(c, d)
    BY <1>3 DEF Begin, RecordedSoFar, Busy
  <1>4. CASE LoadCache
    BY <1>0, <1>4 DEF LoadCache, RecordedSoFar, Busy, UpdatesByCache
  <1>5. CASE Generate
    <2>1. CASE Fail
      BY <1>5, <2>1 DEF Fail, RecordedSoFar, Busy
    <2>2. CASE agenda' = Agenda(run) /\ at' = "call" /\ UNCHANGED result
      <3>1. UpdatesByCache /\ UNCHANGED <<run, cache, disk>>
        BY <1>0, <1>5 DEF Generate, UpdatesByCache
      <3>2. disk = cache
        BY <1>5, <3>1 DEF RecordedSoFar, Generate
      <3>3. \A k \in KindsOf(run) : Pending(k)'
        BY <1>1, <2>2, <3>1, AgendaStarts DEF Pending, UpdatesByCache, UpdateOf
      <3>. QED
        BY <2>2, <3>1, <3>2, <3>3 DEF RecordedSoFar, Busy, KindsOf
    <2>. QED
      BY <1>5, <2>1, <2>2 DEF Generate
  <1>6. CASE Exit
    <2>1. UpdatesByCache /\ UNCHANGED <<run, defs, cache, server, result>> /\ at' = "unlock"
      BY <1>0, <1>6 DEF Exit, UpdatesByCache
    <2>2. result = "ok" => disk' = disk
      BY <1>6, <2>1 DEF Exit, RecordedSoFar
    <2>. QED
      BY <1>6, <2>1, <2>2 DEF Exit, RecordedSoFar, Busy, Recorded, Wanted, LeftOut, JobExists, KindsOf
  <1>7. CASE Unlock
    BY <1>0, <1>7 DEF Unlock, Forgotten, RecordedSoFar, Busy, Recorded, Wanted, LeftOut,
                JobExists, KindsOf, UpdatesByCache
  <1>8. CASE Kill
    BY <1>8 DEF Kill, Forgotten, RecordedSoFar, Busy
  <1>9. CASE /\ at \in Busy /\ agenda # <<>>
             /\ Update \/ DeleteOldManaged \/ DeleteNamed \/ delete_all_jobs \/ delete_all_views
    <2>1. UNCHANGED <<run, defs, repeat>>
      BY <1>9, CallControl
    <2>2. UpdatesByCache /\ run.cmd = "update"
      BY <1>0, <2>1 DEF UpdatesByCache
    <2>3. /\ kind \in KindsOf(run) /\ kind \in Kinds
          /\ Head(agenda).call = "update" => Head(agenda) = UpdateOf(kind) /\ Pending(kind)
          /\ Head(agenda).call # "update" => \A k : Head(agenda) # UpdateOf(k)
      BY <1>9, HeadOfUpdate
    <2>4. UNCHANGED <<agenda, cache>> /\ at' \in Busy => \A k \in KindsOf(run)' : Recorded(k, cache)' \/ Pending(k)'
      <3>1. \A k : Recorded(k, cache) /\ UNCHANGED cache => Recorded(k, cache)'
        BY <2>1, RecordedStays DEF Recorded
      <3>2. \A k : Pending(k) /\ UNCHANGED agenda => Pending(k)'
        BY DEF Pending, UpdateOf
      <3>. QED
        BY <1>9, <2>1, <2>2, <3>1, <3>2 DEF RecordedSoFar, KindsOf
    <2>5. CASE Fail
      BY <2>5 DEF Fail, RecordedSoFar, Busy
    <2>6. CASE Filter
      <3>1. at = "call" /\ disk = cache /\ UNCHANGED <<cache, disk>>
        BY <2>2, <2>6 DEF Filter, Calling, RecordedSoFar
      <3>2. \A n \in Wanted(kind) \ ToUpdate(kind) : cache[n] = defs[kind][n] \/ LeftOut(n)
        BY <1>1, <2>2, NothingToUpdate DEF UpdatesByCache
      <3>3. CASE ToUpdate(kind) = {}
        <4>1. MoveOn /\ Recorded(kind, cache)
          BY <2>6, <3>2, <3>3 DEF Filter, Recorded
        <4>. QED
          BY <1>9, <2>1, <2>2, <3>1, <4>1, CallIsOver
      <3>4. CASE ToUpdate(kind) # {}
        <4>1. /\ at' = "upload" /\ UNCHANGED agenda
              /\ tasks' = [n \in Names |-> IF n \in ToUpdate(kind) THEN "queued" ELSE "none"]
          BY <2>6, <3>4 DEF Filter
        <4>2. Wanted(kind) \subseteq Names /\ kind' = kind /\ Wanted(kind)' = Wanted(kind)
          BY <1>1, <2>1, <4>1, WantedNames DEF kind, Wanted
        <4>3. \A n \in Wanted(kind) : tasks'[n] # "none" \/ cache'[n] = defs'[kind][n] \/ LeftOut(n)'
          BY <2>1, <3>1, <3>2, <4>1, <4>2, LeftOutStays
        <4>4. at' \in Busy
          BY <4>1 DEF Busy
        <4>. QED
          BY <2>4, <3>1, <4>1, <4>2, <4>3, <4>4 DEF RecordedSoFar
      <3>. QED
        BY <3>3, <3>4
    <2>7. ASSUME NEW n \in Names, Decide(n) \/ Upload(n) \/ UploadFails(n) PROVE RecordedSoFar'
      <3>1. at = "upload" /\ at' = "upload" /\ UNCHANGED <<agenda, cache, disk>> /\ tasks[n] # "none"
        BY <2>7 DEF Decide, Upload, UploadFails, IsFirst, InFlight
      <3>2. \A m \in Names : tasks[m] # "none" => tasks'[m] # "none"
        BY <1>1, <2>7 DEF Decide, Upload, UploadFails, TypeOK
      <3>3. Wanted(kind) \subseteq Names /\ kind' = kind /\ Wanted(kind)' = Wanted(kind)
        BY <1>1, <2>1, <3>1, WantedNames DEF kind, Wanted
      <3>4. \A m \in Wanted(kind) : tasks'[m] # "none" \/ cache'[m] = defs'[kind][m] \/ LeftOut(m)'
        BY <2>1, <2>2, <3>1, <3>2, <3>3, LeftOutStays DEF RecordedSoFar
      <3>5. disk' = cache'
        BY <2>2, <3>1 DEF RecordedSoFar
      <3>. QED
        BY <2>4, <3>1, <3>3, <3>4, <3>5 DEF RecordedSoFar, Busy
    <2>8. ASSUME NEW n \in Names, Record(n), tasks[n] = "done" PROVE RecordedSoFar'
      <3>1. /\ at = "record" /\ at' = "record" /\ UNCHANGED agenda
            /\ tasks' = [tasks EXCEPT ![n] = "none"]
            /\ cache' = [cache EXCEPT ![n] = defs[kind][n]]
        BY <2>8 DEF Record
      <3>2. Wanted(kind) \subseteq Names /\ kind' = kind /\ Wanted(kind)' = Wanted(kind)
        BY <1>1, <2>1, <3>1, WantedNames DEF kind, Wanted
      <3>3. \A m \in Wanted(kind) : tasks'[m] # "none" \/ cache'[m] = defs'[kind][m] \/ LeftOut(m)'
        <4>1. \A m \in Wanted(kind) : m # n => tasks'[m] = tasks[m] /\ cache'[m] = cache[m]
          BY <1>1, <3>1, <3>2 DEF TypeOK
        <4>2. n \in Wanted(kind) => cache'[n] = defs[kind][n]
          BY <1>1, <3>1 DEF TypeOK
        <4>. QED
          BY <2>1, <2>2, <3>1, <3>2, <4>1, <4>2, LeftOutStays DEF RecordedSoFar
      <3>4. ASSUME NEW k \in KindsOf(run), Recorded(k, cache), k # kind PROVE Recorded(k, cache)'
        <4>1. defs[kind][n] # NotDefined /\ defs \in Definitions
          <5>1. defs[kind][n] \in Configs
            BY <2>8, <3>1 DEF Inv, TasksAreGenerated
          <5>2. defs[kind][n] # NotDefined
            BY <5>1, JenkinsManagerAssumption DEF JenkinsManagerAssumption
          <5>3. defs # Nothing
            BY <2>3, <5>2 DEF Nothing
          <5>. QED
            BY <5>2, <5>3 DEF DefsAreGiven
        <4>2. defs[k][n] = NotDefined
          BY <1>1, <2>3, <3>4, <4>1, KindsOfRun DEF OneKindPerName, Kinds
        <4>3. Wanted(k) \subseteq Names /\ n \notin Wanted(k) /\ Wanted(k)' = Wanted(k)
          BY <1>1, <2>1, <4>2, WantedNames DEF Wanted
        <4>4. \A m \in Wanted(k) : cache'[m] = cache[m]
          BY <1>1, <3>1, <4>3 DEF TypeOK
        <4>. QED
          BY <2>1, <3>4, <4>3, <4>4, LeftOutStays DEF Recorded
      <3>5. \A k : Pending(k) => Pending(k)'
        BY <3>1 DEF Pending, UpdateOf
      <3>6. Pending(kind)
        BY <2>3, <3>1 DEF AgendaOfRun
      <3>7. \A k \in KindsOf(run)' : Recorded(k, cache)' \/ Pending(k)'
        BY <1>9, <2>1, <2>2, <3>4, <3>5, <3>6 DEF RecordedSoFar, KindsOf
      <3>. QED
        BY <3>1, <3>2, <3>3, <3>7 DEF RecordedSoFar, Busy
    <2>9. CASE Collect
      <3>1. at = "upload" /\ at' = "record" /\ UNCHANGED <<agenda, cache, tasks>>
        BY <2>9 DEF Collect
      <3>2. Wanted(kind) \subseteq Names /\ kind' = kind /\ Wanted(kind)' = Wanted(kind)
        BY <1>1, <2>1, <3>1, WantedNames DEF kind, Wanted
      <3>3. \A m \in Wanted(kind) : tasks'[m] # "none" \/ cache'[m] = defs'[kind][m] \/ LeftOut(m)'
        BY <2>1, <2>2, <3>1, <3>2, LeftOutStays DEF RecordedSoFar
      <3>. QED
        BY <2>4, <3>1, <3>2, <3>3 DEF RecordedSoFar, Busy
    <2>10. CASE SaveUpdated /\ disk' = cache /\ MoveOn
      <3>1. at = "record" /\ UNCHANGED cache /\ \A n \in Names : tasks[n] = "none"
        BY <2>10 DEF SaveUpdated, Unread
      <3>2. Recorded(kind, cache)
        BY <1>1, <2>2, <3>1, WantedNames DEF RecordedSoFar, Recorded
      <3>. QED
        BY <1>9, <2>1, <2>2, <2>10, <3>1, <3>2, CallIsOver
    <2>11. CASE OldStep
      BY <2>2, <2>4, <2>11 DEF OldStep, RecordedSoFar, Busy
    <2>12. CASE OldDeleted
      <3>1. at = "deleting" /\ MoveOn /\ UNCHANGED <<cache, disk>> /\ Head(agenda).call # "update"
        BY <2>12 DEF OldDeleted
      <3>2. disk = cache
        BY <2>2, <3>1 DEF RecordedSoFar
      <3>. QED
        BY <1>9, <2>1, <2>2, <2>3, <3>1, <3>2, CallIsOver
    <2>. QED
      BY <1>9, <2>2, <2>5, <2>6, <2>7, <2>8, <2>9, <2>10, <2>11, <2>12, UpdateSteps
  <1>. QED
    BY <1>2, <1>3, <1>4, <1>5, <1>6, <1>7, <1>8, <1>9, StepCases
       DEF RenamesReplace, RemoveOldFile

LEMMA RecordedBeforeNext ==
  ASSUME RenamesReplace, FullInv, RecordedSoFar, RecordedBefore, [Next]_vars
  PROVE  RecordedBefore'
  <1>. USE DEF FullInv
  <1>0. SUFFICES ASSUME UpdatesByCache', repeat' PROVE RecordedBefore'
    BY DEF RecordedBefore
  <1>1. TypeOK /\ run \in Commands
    BY DEF Inv, TypeOK
  <1>2. CASE UNCHANGED vars
    BY <1>2 DEF vars, RecordedBefore, Recorded, LeftOut, JobExists, Wanted,
                UpdatesByCache, KindsOf
  <1>3. ASSUME NEW c \in Commands, NEW d \in Definitions, Begin(c, d) PROVE RecordedBefore'
    <2>1. at = "idle" /\ result = "ok" /\ UNCHANGED <<run, defs, server, disk>> /\ at' = "loading"
      BY <1>0, <1>3 DEF Begin
    <2>2. \A k \in KindsOf(run) : Recorded(k, disk)
      BY <1>0, <2>1 DEF UpdatesByCache, RecordedSoFar
    <2>. QED
      BY <2>1, <2>2 DEF RecordedBefore, Busy, Recorded, LeftOut, JobExists, Wanted, KindsOf
  <1>4. CASE LoadCache
    BY <1>0, <1>4 DEF LoadCache, RecordedBefore, Busy, UpdatesByCache, Recorded, LeftOut,
                JobExists, Wanted, KindsOf
  <1>5. CASE Generate
    <2>1. /\ UpdatesByCache /\ repeat /\ at = "generate" /\ at' \in {"call", "exit"}
          /\ UNCHANGED <<run, defs, server, cache, disk>>
      BY <1>0, <1>5 DEF Generate, Fail, UpdatesByCache
    <2>2. disk = cache
      BY <2>1 DEF RecordedSoFar
    <2>. QED
      BY <2>1, <2>2 DEF RecordedBefore, Busy, Recorded, LeftOut, JobExists, Wanted, KindsOf
  <1>6. CASE Exit \/ Unlock \/ Kill \/ RemoveOldFile
    BY <1>6 DEF Exit, Unlock, Kill, RemoveOldFile, RenamesReplace, Forgotten, RecordedBefore, Busy
  <1>7. CASE /\ at \in Busy /\ agenda # <<>>
             /\ Update \/ DeleteOldManaged \/ DeleteNamed \/ delete_all_jobs \/ delete_all_views
    <2>1. UNCHANGED <<run, defs, repeat>>
      BY <1>7, CallControl
    <2>2. UpdatesByCache /\ run.cmd = "update" /\ repeat
      BY <1>0, <2>1 DEF UpdatesByCache
    <2>3. at \in {"call", "deleting"} /\ \A k \in KindsOf(run) : Recorded(k, cache)
      BY <1>7, <2>2 DEF RecordedBefore, Busy
    <2>4. SUFFICES UNCHANGED cache /\ at' \in {"call", "deleting", "exit"}
      <3>1. ASSUME NEW k \in KindsOf(run), UNCHANGED cache PROVE Recorded(k, cache)'
        BY <2>1, <2>3, <3>1, RecordedStays DEF Recorded
      <3>. QED
        BY <2>1, <2>4, <3>1 DEF RecordedBefore, KindsOf
    <2>5. ASSUME Fail PROVE UNCHANGED cache /\ at' = "exit"
      <3>1. at' = "exit"
        BY <2>5 DEF Fail
      <3>2. CASE Update
        BY <2>3, <2>5, <3>1, <3>2 DEF Update, Filter, FilterFails, Decide, Upload, UploadFails,
             Record, Collect, SaveUpdated
      <3>3. CASE DeleteOldManaged
        BY <3>1, <3>3 DEF DeleteOldManaged, ListOld, ListLeft, OldDeleted, DeleteOld
      <3>4. Head(agenda).call \in {"update", "delete_old"}
        <4>1. agenda \in Seq(Calls) /\ Len(agenda) > 0 /\ Head(agenda) = agenda[1]
          BY <1>1, <1>7, EmptySeq, LenProperties DEF TypeOK, Calls
        <4>. QED
          BY <1>7, <2>2, <4>1 DEF AgendaOfRun, IsAgendaOf, CallOf
      <3>5. ~DeleteNamed /\ ~delete_all_jobs /\ ~delete_all_views
        BY <3>4 DEF DeleteNamed, StartDelete, Delete, SaveDeleted, delete_all_jobs,
                    delete_all_views, ListViews, DeleteView, ViewsDeleted, Calling
      <3>. QED
        BY <1>7, <3>1, <3>2, <3>3, <3>5
    <2>6. CASE Filter
      <3>1. kind \in KindsOf(run)
        BY <1>7, HeadOfUpdate
      <3>2. ToUpdate(kind) = {}
        BY <2>2, <2>3, <3>1 DEF Recorded, ToUpdate, Changed, LeftOut, UpdatesByCache
      <3>. QED
        BY <2>6, <3>2 DEF Filter, MoveOn
    <2>7. CASE OldStep
      BY <2>7 DEF OldStep
    <2>8. CASE OldDeleted
      BY <2>8 DEF OldDeleted, MoveOn
    <2>. QED
      BY <1>7, <2>2, <2>3, <2>5, <2>6, <2>7, <2>8, UpdateSteps
         DEF Decide, Upload, UploadFails, Record, Collect, SaveUpdated
  <1>. QED
    BY <1>2, <1>3, <1>4, <1>5, <1>6, <1>7, StepCases

LEMMA RecordedInvariant ==
  ASSUME OneKindPerName, RenamesReplace
  PROVE  Spec => [](RecordedSoFar /\ RecordedBefore)
  <1>1. Init => RecordedSoFar /\ RecordedBefore
    BY DEF Init, RecordedSoFar, RecordedBefore, Busy
  <1>2. FullInv /\ (RecordedSoFar /\ RecordedBefore) /\ [Next]_vars
          => (RecordedSoFar /\ RecordedBefore)'
    BY RecordedSoFarNext, RecordedBeforeNext
  <1>. QED
    BY <1>1, <1>2, FullInvariant, PTL DEF Spec

(* The same update again uploads nothing (execution.rst:193-195), whatever *)
(* failed or was killed before, with folders, --existing-only and          *)
(* --delete-old: provided no name is both a job's and a view's, and a      *)
(* rename never raises: the destructor may lose the file after the command *)
(* went well (cache.py:124-130).                                           *)
THEOREM RepeatSendsNothing ==
  ASSUME OneKindPerName, RenamesReplace PROVE Spec => []RepeatUploadsNothing
  <1>1. FullInv /\ RecordedSoFar /\ RecordedBefore => RepeatUploadsNothing
    <2>. SUFFICES ASSUME FullInv, RecordedBefore, repeat, at = "upload"
                  PROVE  run.ignore_cache \/ run.flush_cache
      BY DEF RepeatUploadsNothing
    <2>1. run.cmd = "update"
      <3>1. agenda # <<>> /\ at \in Busy
        BY DEF FullInv, Inv, InCall, Busy
      <3>2. agenda \in Seq(Calls) /\ Len(agenda) > 0 /\ Head(agenda) = agenda[1]
        BY <3>1, EmptySeq, LenProperties DEF FullInv, Inv, TypeOK, Calls
      <3>. QED
        BY <3>1, <3>2 DEF FullInv, AgendaOfRun, IsAgendaOf, CallOf
    <2>. QED
      BY <2>1 DEF RecordedBefore, UpdatesByCache
  <1>. QED
    BY <1>1, FullInvariant, RecordedInvariant, PTL

-----------------------------------------------------------------------------
(* What an update takes from the server: only what delete_old finds        *)
(* obsolete, with what is in it.                                           *)
LEMMA RemovalsOfUpdates ==
  ASSUME FullInv, [Next]_vars, run.cmd = "update"
  PROVE  \/ UNCHANGED server
         \/ \E n \in Names : Upload(n)
         \/ /\ kind \in Kinds /\ run.delete_old
            /\ \E n \in Names : /\ Obsolete(kind, n)
                                /\ server' = [server EXCEPT ![kind] = Remove(@, kind, n)]
  <1>1. CASE at \in Busy /\ agenda # <<>> /\ kind \in Kinds
             /\ (Update \/ DeleteOldManaged \/ DeleteNamed \/ delete_all_jobs \/ delete_all_views)
    <2>1. Head(agenda).call = "update" \/ (run.delete_old /\ Head(agenda).call = "delete_old")
      <3>1. agenda \in Seq(Calls) /\ Len(agenda) > 0 /\ Head(agenda) = agenda[1]
        BY <1>1, EmptySeq, LenProperties DEF FullInv, Inv, TypeOK, Calls
      <3>2. CallOf(run, agenda[1])
        BY <1>1, <3>1 DEF FullInv, AgendaOfRun, IsAgendaOf
      <3>. QED
        BY <3>1, <3>2 DEF CallOf
    <2>2. CASE Update
      BY <2>2 DEF Update, Filter, FilterFails, Decide, UploadFails, Record, Collect, SaveUpdated
    <2>3. CASE DeleteOldManaged
      <3>1. ListOld \/ OldDeleted => UNCHANGED server
        BY DEF ListOld, ListLeft, OldDeleted
      <3>2. ASSUME NEW n \in Names, DeleteOld(n)
            PROVE  \/ UNCHANGED server
                   \/ /\ Obsolete(kind, n) /\ Head(agenda).call = "delete_old"
                      /\ server' = [server EXCEPT ![kind] = Remove(@, kind, n)]
        BY <3>2 DEF DeleteOld, RemoveRequest
      <3>. QED
        BY <1>1, <2>1, <2>3, <3>1, <3>2 DEF DeleteOldManaged
    <2>4. ~DeleteNamed /\ ~delete_all_jobs /\ ~delete_all_views
      BY <2>1 DEF DeleteNamed, StartDelete, Delete, SaveDeleted, delete_all_jobs,
                  delete_all_views, ListViews, DeleteView, ViewsDeleted, Calling
    <2>. QED
      BY <1>1, <2>2, <2>3, <2>4
  <1>2. UNCHANGED vars \/ LoadCache \/ Generate \/ Exit \/ Unlock \/ Kill \/ RemoveOldFile
          \/ (\E c \in Commands, d \in Definitions : Begin(c, d)) => UNCHANGED server
    BY DEF vars, LoadCache, Generate, Exit, Unlock, Kill, RemoveOldFile, Begin
  <1>. QED
    BY <1>1, <1>2, StepCases DEF FullInv

(* What any command does to one job.                                       *)
LEMMA JobSteps ==
  ASSUME FullInv, [Next]_vars, NEW n \in Names
  PROVE  \/ server'["job"][n] \in {server["job"][n], Absent}
         \/ server'["job"][n] = defs["job"][n] /\ defs \in Definitions /\ defs["job"][n] \in Configs
  <1>. USE DEF FullInv
  <1>1. server \in [Kinds -> Items] /\ "job" \in Kinds
    BY DEF Inv, TypeOK, Kinds
  <1>2. ASSUME NEW k \in Kinds, NEW m \in Names, RemoveRequest(k, m)
        PROVE  server'["job"][n] \in {server["job"][n], Absent}
    BY <1>1, <1>2 DEF RemoveRequest, Remove, Items
  <1>3. ASSUME NEW m \in Names, Upload(m), kind \in Kinds
        PROVE  \/ server'["job"][n] \in {server["job"][n], Absent}
               \/ server'["job"][n] = defs["job"][n] /\ defs \in Definitions /\ defs["job"][n] \in Configs
    <2>1. server' = [server EXCEPT ![kind] = [@ EXCEPT ![m] = defs[kind][m]]]
      BY <1>3 DEF Upload, Put
    <2>2. defs[kind][m] \in Configs
      BY <1>3 DEF Upload, InFlight, Inv, TasksAreGenerated
    <2>3. defs \in Definitions
      BY <1>3, <2>2, JenkinsManagerAssumption DEF DefsAreGiven, Nothing, JenkinsManagerAssumption
    <2>4. CASE kind = "job" /\ m = n
      BY <1>1, <2>1, <2>2, <2>3, <2>4 DEF Items
    <2>5. CASE kind # "job" \/ m # n
      BY <1>1, <1>3, <2>1, <2>5 DEF Items
    <2>. QED
      BY <2>4, <2>5
  <1>4. CASE at \in Busy /\ agenda # <<>> /\ kind \in Kinds
             /\ (Update \/ DeleteOldManaged \/ DeleteNamed \/ delete_all_jobs \/ delete_all_views)
    <2>1. CASE Update
      BY <1>3, <1>4, <2>1
         DEF Update, Filter, FilterFails, Decide, UploadFails, Record, Collect, SaveUpdated
    <2>2. CASE DeleteOldManaged
      BY <1>2, <1>4, <2>2 DEF DeleteOldManaged, ListOld, ListLeft, OldDeleted, DeleteOld
    <2>3. CASE DeleteNamed
      BY <1>2, <1>4, <2>3 DEF DeleteNamed, StartDelete, SaveDeleted, Delete
    <2>4. CASE delete_all_jobs
      BY <1>1, <2>4 DEF delete_all_jobs, RemoveAll
    <2>5. CASE delete_all_views
      BY <1>2, <2>5 DEF delete_all_views, ListViews, ListLeft, ViewsDeleted, DeleteView, Kinds
    <2>. QED
      BY <1>4, <2>1, <2>2, <2>3, <2>4, <2>5
  <1>5. UNCHANGED vars \/ LoadCache \/ Generate \/ Exit \/ Unlock \/ Kill \/ RemoveOldFile
          \/ (\E c \in Commands, d \in Definitions : Begin(c, d)) => UNCHANGED server
    BY DEF vars, LoadCache, Generate, Exit, Unlock, Kill, RemoveOldFile, Begin
  <1>. QED
    BY <1>4, <1>5, StepCases

(* In the folders there are no jobs but JJB's.                             *)
ManagedInside ==
    \A n \in Names : Inside[n] # {} => server["job"][n] \in Managed \cup {Absent}

LEMMA ManagedInvariant ==
  ASSUME OnlyManagedInFolders PROVE Spec => []ManagedInside
  <1>1. Init => ManagedInside
    BY DEF Init, ManagedInside, OnlyManagedInFolders
  <1>2. FullInv /\ ManagedInside /\ [Next]_vars => ManagedInside'
    <2>. SUFFICES ASSUME FullInv, ManagedInside, [Next]_vars,
                         NEW n \in Names, Inside[n] # {}
                  PROVE  server'["job"][n] \in Managed \cup {Absent}
      BY DEF ManagedInside
    <2>1. CASE server'["job"][n] \in {server["job"][n], Absent}
      BY <2>1 DEF ManagedInside
    <2>2. CASE server'["job"][n] = defs["job"][n] /\ defs \in Definitions /\ defs["job"][n] \in Configs
      BY <2>2, JenkinsManagerAssumption DEF OnlyManagedInFolders, JenkinsManagerAssumption
    <2>. QED
      BY <2>1, <2>2, JobSteps
  <1>. QED
    BY <1>1, <1>2, FullInvariant, PTL DEF Spec

(* --delete-old takes away only jobs and views that JJB made and that the  *)
(* definitions no longer make (execution.rst:310-312; builder.py:202-225), *)
(* whatever fails: provided it is given all items, and the jobs in folders *)
(* are JJB's and are defined together with their folders.                  *)
THEOREM OldIsObsolete ==
  ASSUME OldOfEverything, FoldersAreDefined, OnlyManagedInFolders
  PROVE  Spec => OldOnlyObsolete
  <1>. DEFINE Removes(k, n) == server[k][n] # Absent /\ server'[k][n] = Absent
              OnlyOld ==
                run.cmd = "update" =>
                  \A k \in Kinds, n \in Names :
                    server[k][n] # Absent /\ server'[k][n] = Absent =>
                      server[k][n] \in Managed /\ defs[k][n] = NotDefined
  <1>1. FullInv /\ ManagedInside /\ [Next]_vars => [OnlyOld]_vars
    <2>. SUFFICES ASSUME FullInv, ManagedInside, [Next]_vars, run.cmd = "update",
                         NEW k \in Kinds, NEW n \in Names, Removes(k, n)
                  PROVE  server[k][n] \in Managed /\ defs[k][n] = NotDefined
      OBVIOUS
    <2>1. server \in [Kinds -> Items] /\ run \in Commands /\ defs \in Definitions \cup {Nothing}
      BY DEF FullInv, Inv, TypeOK, DefsAreGiven
    <2>2. ASSUME NEW m \in Names, Upload(m) PROVE FALSE
      <3>1. at = "upload" /\ tasks[m] # "none"
        BY <2>2 DEF Upload, InFlight
      <3>2. defs[kind][m] \in Configs /\ defs[kind][m] # Absent
        BY <3>1, JenkinsAssumption DEF FullInv, Inv, TasksAreGenerated, JenkinsAssumption
      <3>3. server' = [server EXCEPT ![kind] = [@ EXCEPT ![m] = defs[kind][m]]]
        BY <2>2 DEF Upload, Put
      <3>. QED
        BY <2>1, <3>2, <3>3 DEF Items
    <2>3. /\ kind \in Kinds /\ run.delete_old
          /\ \E m \in Names : /\ Obsolete(kind, m)
                              /\ server' = [server EXCEPT ![kind] = Remove(@, kind, m)]
      BY <2>2, RemovalsOfUpdates
    <2>4. PICK m \in Names : /\ Obsolete(kind, m)
                             /\ server' = [server EXCEPT ![kind] = Remove(@, kind, m)]
      BY <2>3
    <2>5. k = kind /\ (n = m \/ (k = "job" /\ m \in Inside[n]))
      BY <2>1, <2>3, <2>4 DEF Remove
    <2>6. server[kind][m] \in Managed /\ defs[kind][m] = NotDefined
      <3>1. run.names = Names /\ ~run.enabled_only
        BY <2>1, <2>3 DEF OldOfEverything
      <3>. QED
        BY <2>4, <3>1 DEF Obsolete, Wanted
    <2>7. CASE n = m
      BY <2>5, <2>6, <2>7
    <2>8. CASE k = "job" /\ m \in Inside[n]
      <3>1. server["job"][n] \in Managed
        BY <2>8 DEF ManagedInside
      <3>2. defs["job"][n] = NotDefined
        BY <2>1, <2>5, <2>6, <2>8 DEF FoldersAreDefined, Nothing
      <3>. QED
        BY <2>8, <3>1, <3>2
    <2>. QED
      BY <2>5, <2>7, <2>8
  <1>. QED
    BY <1>1, FullInvariant, ManagedInvariant, PTL DEF Spec, OldOnlyObsolete
=============================================================================
