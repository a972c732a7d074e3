-------------------------- MODULE MCJenkinsManager --------------------------
(* Small instances of JenkinsManager: two or three names, two              *)
(* configurations, and for each run the command lines and the definitions  *)
(* it is about.  The name f may be a folder that the job a is in.          *)
EXTENDS JenkinsManager

CONSTANTS a, b, f, v, c1, c2

NoFolders == [n \in Names |-> {}]
AInF == [n \in Names |-> IF n = a THEN {f} ELSE {}]

(* A folder is sorted before what is in it.                                *)
PlaceOf == [n \in Names |-> CHOOSE i \in 0..3 : <<f, a, b, v>>[i + 1] = n]

-----------------------------------------------------------------------------
(* A command line without options.                                         *)
Line(cmd, kinds, names) ==
    [cmd |-> cmd, kinds |-> kinds, names |-> names, path |-> FALSE,
     existing_only |-> FALSE, enabled_only |-> FALSE, delete_old |-> FALSE,
     ignore_cache |-> FALSE, flush_cache |-> FALSE, n_workers |-> 1]

All == <<"job", "view">>
Update1 == Line("update", All, Names)
Update2 == [Update1 EXCEPT !.n_workers = 2]
UpdateOld == [Update2 EXCEPT !.delete_old = TRUE]

AllCommands ==
    {Update2,
     [Update1 EXCEPT !.ignore_cache = TRUE, !.n_workers = 0],
     [Update1 EXCEPT !.kinds = <<"job">>, !.existing_only = TRUE],
     [Update2 EXCEPT !.flush_cache = TRUE, !.enabled_only = TRUE],
     Line("delete", All, {a, v}),
     [Line("delete", <<"job">>, Names) EXCEPT !.path = TRUE],
     Line("delete_all", <<"job">>, Names),
     Line("delete_all", All, Names)}

FaultyCommands ==
    {UpdateOld,
     [Update1 EXCEPT !.existing_only = TRUE, !.flush_cache = TRUE],
     Line("delete", All, {a, b}),
     Line("delete_all", All, Names)}

PlainUpdates == {Update1, Update2}
Updates ==
    {Update2,
     [Update1 EXCEPT !.kinds = <<"job">>, !.names = {a}],
     [Update2 EXCEPT !.ignore_cache = TRUE],
     [Update2 EXCEPT !.flush_cache = TRUE]}
UpdatesWithOld ==
    {Update2, UpdateOld,
     [UpdateOld EXCEPT !.kinds = <<"job">>],
     [UpdateOld EXCEPT !.ignore_cache = TRUE]}
UncachedUpdatesWithOld ==
    {[Update1 EXCEPT !.ignore_cache = TRUE, !.delete_old = TRUE],
     [Update1 EXCEPT !.flush_cache = TRUE, !.delete_old = TRUE]}
UpdatesEnabledWithOld == {Update2, [UpdateOld EXCEPT !.enabled_only = TRUE]}
UpdatesExisting == {Update2, [Update2 EXCEPT !.existing_only = TRUE]}

-----------------------------------------------------------------------------
Holding(jobs, views) == [k \in Kinds |-> IF k = "job" THEN jobs ELSE views]
Undefined == [n \in Names |-> NotDefined]

(* The jobs a and b and the view v, none of another's name.                *)
JobsAndViews ==
    {Holding([Undefined EXCEPT ![a] = x, ![b] = y], [Undefined EXCEPT ![v] = z]) :
        x \in {c1, c2}, y \in {c1, NotDefined}, z \in {c1, NotDefined}}

OneOrTwoJobs ==
    {Holding([Undefined EXCEPT ![a] = x, ![b] = y], Undefined) :
        x \in {c1, c2}, y \in {c1, NotDefined}}

TwoJobs ==
    {Holding([Undefined EXCEPT ![a] = x, ![b] = y], Undefined) :
        x \in {c1, c2}, y \in {c1, c2}}

JobsAndOneView ==
    {Holding([Undefined EXCEPT ![a] = x, ![b] = y], [Undefined EXCEPT ![v] = z]) :
        x \in {c1, c2}, y \in {c1, c2}, z \in {c1, c2}}

JobAndViewOfOneName ==
    {Holding([Undefined EXCEPT ![a] = c1], [Undefined EXCEPT ![a] = c2])}

JobInFolder ==
    {Holding([Undefined EXCEPT ![f] = x, ![a] = y, ![b] = z], Undefined) :
        x \in {c1, c2}, y \in {c1, NotDefined}, z \in {c1, c2}}

(* The folder f and what is in it come and go together.                    *)
FolderTrees ==
    JobInFolder \cup
    {Holding([Undefined EXCEPT ![b] = z], Undefined) : z \in {c1, NotDefined}}

-----------------------------------------------------------------------------
AnyChange == (Configs \cup {NotDefined}) \X (Configs \cup {NotDefined})

(* A definition never makes again what it made before something else.      *)
OnlyForward ==
    {<<NotDefined, NotDefined>>, <<NotDefined, c1>>, <<NotDefined, c2>>,
     <<c1, c1>>, <<c1, c2>>, <<c2, c2>>}

Bare == [n \in Names |-> Absent]
EmptyServer == {Holding(Bare, Bare)}
UsedServer ==
    {Holding(Bare, Bare),
     Holding([n \in Names |-> Foreign], [n \in Names |-> Foreign]),
     Holding([Bare EXCEPT ![a] = c2, ![b] = c1], Bare)}
ForeignOutside ==
    {Holding(Bare, Bare), Holding([Bare EXCEPT ![b] = Foreign], [Bare EXCEPT ![b] = Foreign])}

-----------------------------------------------------------------------------
(* The runs that check a property meet the conditions under which it is    *)
(* proved.                                                                 *)
ASSUME ConditionsOfRuns ==
    /\ Commands = AllCommands =>
           /\ OneKindPerName /\ FoldersFirst /\ NothingDeletedTwice
           /\ FoldersStay /\ NothingOldDeleted /\ ExistingOnlyForJobs
           /\ RenamesReplace
    /\ Commands = Updates =>
           OneKindPerName /\ OnlyUpdates /\ NothingOldDeleted /\ ExistingOnlyForJobs /\ Forward
    /\ Commands = UncachedUpdatesWithOld =>
           /\ OldOfEverything /\ FoldersAreDefined /\ OnlyManagedInFolders
           /\ FoldersFirst /\ NothingDeletedTwice
=============================================================================
