------------------------------ MODULE Jenkins ------------------------------
(***************************************************************************)
(* The Jenkins server, as jenkins_jobs/builder.py uses it through          *)
(* python-jenkins.  Its code is not in this repository: each operator says *)
(* what one request does to the items of the server.                       *)
(*                                                                         *)
(* The items of a kind, "job" or "view", are a function from names to what *)
(* the server holds under the name.  Jobs may be in folders, which are     *)
(* jobs themselves; only the views of the top level are modelled.          *)
(***************************************************************************)
CONSTANTS
    Names,   \* full names of jobs and views
    Inside,  \* Inside[n]: the folders the job n is in, at every depth
    Configs, \* configurations JJB generates, told apart by their MD5
    Foreign, \* any configuration JJB did not make
    Absent   \* nothing under that name

ASSUME JenkinsAssumption ==
    /\ Inside \in [Names -> SUBSET Names]
    /\ Foreign \notin Configs
    /\ Absent \notin Configs \cup {Foreign}

Kinds == {"job", "view"}

Items == [Names -> Configs \cup {Foreign, Absent}]

Existing(items) == {n \in Names : items[n] # Absent}

(* create_job and create_view refuse a name that exists; a job's folders   *)
(* must exist.                                                             *)
CanCreate(items, kind, n) ==
    /\ items[n] = Absent
    /\ kind = "job" => Inside[n] \subseteq Existing(items)

(* create_* and reconfig_*: the server takes the XML over.                 *)
Put(items, n, c) == [items EXCEPT ![n] = c]

(* delete_job and delete_view; a folder goes with all that is in it.       *)
Remove(items, kind, n) ==
    [m \in Names |-> IF m = n \/ (kind = "job" /\ n \in Inside[m])
                     THEN Absent ELSE items[m]]

(* The script of delete_all_jobs.                                          *)
RemoveAll == [n \in Names |-> Absent]
=============================================================================
