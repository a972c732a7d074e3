-------------------------- MODULE ExpandParameters --------------------------
(***************************************************************************)
(* jenkins_jobs/expander.py, expand_parameters: the parameters of one      *)
(* instance of a template may refer to each other, so that each of them is *)
(* expanded after those it uses.  The code is a recursive function with    *)
(* two dictionaries: expanded_params, and deps, the names on the stack of  *)
(* its calls.                                                              *)
(*                                                                         *)
(* Of a value only the names it refers to matter.  They are visited in any *)
(* order here, as are the keys of the dictionary; an expanded value is the *)
(* parameter together with what it was filled with.                        *)
(***************************************************************************)
EXTENDS Naturals, Sequences

CONSTANTS
    Params,    \* names a value may refer to
    First,     \* "name", which is expanded before the others
    Verbatim,  \* disable_expand_for
    Formats,   \* values, see below
    Undefined  \* jinja2's StrictUndefined

(* A value refers to `uses', and has a default for `optional' of them.     *)
ASSUME ExpandParametersAssumption ==
    /\ Verbatim \subseteq Params
    /\ Formats \subseteq [uses : SUBSET Params, optional : SUBSET Params]

VARIABLES
    param_dict,      \* the parameters that are defined, with their values
    todo,            \* those the loop at the end has not come to
    deps,            \* the names that are being expanded, the last on top
    expanded_params,
    outcome          \* "expanding", "expanded", "recursive" or "undefined"

vars == <<param_dict, todo, deps, expanded_params, outcome>>

(* enum_required_params of a value that is expanded at all.                *)
Uses(n) == IF n \in Verbatim THEN {} ELSE param_dict[n].uses

Lacks(n) ==
    IF n \in Verbatim THEN {}
    ELSE Uses(n) \ (param_dict[n].optional \cup DOMAIN param_dict)

(* The value of n, filled with what a look at `values' gives.              *)
Filled(n, values) ==
    [of |-> n,
     with |-> [u \in Uses(n) |-> IF u \in DOMAIN values THEN values[u] ELSE Undefined]]

Extended(values, n) ==
    [m \in DOMAIN values \cup {n} |-> IF m = n THEN Filled(n, values) ELSE values[m]]

Running == {deps[i] : i \in 1..Len(deps)}
Top == deps[Len(deps)]

-----------------------------------------------------------------------------
Init ==
    /\ \E defined \in SUBSET Params : param_dict \in [defined -> Formats]
    /\ todo = DOMAIN param_dict
    /\ deps = <<>>
    /\ expanded_params = << >>
    /\ outcome = "expanding"

(* expand(n), for a name that is defined and has no value yet.             *)
Enter(n) ==
    IF n \in Verbatim
    THEN expanded_params' = Extended(expanded_params, n) /\ UNCHANGED deps
    ELSE deps' = Append(deps, n) /\ UNCHANGED expanded_params

(* The loop over the keys, "name" first.                                   *)
ExpandNext(n) ==
    /\ outcome = "expanding"
    /\ deps = <<>>
    /\ n \in todo
    /\ First \in todo => n = First
    /\ todo' = todo \ {n}
    /\ IF n \in DOMAIN expanded_params
       THEN UNCHANGED <<deps, expanded_params>>
       ELSE Enter(n)
    /\ UNCHANGED <<param_dict, outcome>>

(* Mutant of Pending: no look whether the name is defined.                 *)
PendingUndefined(n) == Uses(n) \ DOMAIN expanded_params

(* Mutant of Pending: names that are being expanded are passed over.       *)
PendingNotRunning(n) ==
    (Uses(n) \cap DOMAIN param_dict) \ (DOMAIN expanded_params \cup Running)

(* What the value of n refers to, is defined and was not expanded yet.     *)
Pending(n) == (Uses(n) \cap DOMAIN param_dict) \ DOMAIN expanded_params

ExpandRequired(u) ==
    /\ outcome = "expanding"
    /\ deps # <<>>
    /\ u \in Pending(Top) \ Running
    /\ Enter(u)
    /\ UNCHANGED <<param_dict, todo, outcome>>

(* Mutant of FindRecursion: the call goes on with the same name.           *)
GoOnForEver(u) ==
    /\ outcome = "expanding"
    /\ deps # <<>>
    /\ u \in Pending(Top) \cap Running
    /\ UNCHANGED vars

FindRecursion(u) ==
    /\ outcome = "expanding"
    /\ deps # <<>>
    /\ u \in Pending(Top) \cap Running
    /\ outcome' = "recursive"
    /\ UNCHANGED <<param_dict, todo, deps, expanded_params>>

(* Mutant of Fill: the value is filled before what it uses is expanded.    *)
FillEarly ==
    /\ outcome = "expanding"
    /\ deps # <<>>
    /\ deps' = SubSeq(deps, 1, Len(deps) - 1)
    /\ expanded_params' = Extended(expanded_params, Top)
    /\ UNCHANGED <<param_dict, todo, outcome>>

(* All that the value on top uses is there: deps.popitem(), then the       *)
(* expander, which fails on an undefined name without a default.           *)
Fill ==
    /\ outcome = "expanding"
    /\ deps # <<>>
    /\ Pending(Top) = {}
    /\ deps' = SubSeq(deps, 1, Len(deps) - 1)
    /\ IF Lacks(Top) = {}
       THEN expanded_params' = Extended(expanded_params, Top) /\ UNCHANGED outcome
       ELSE outcome' = "undefined" /\ UNCHANGED expanded_params
    /\ UNCHANGED <<param_dict, todo>>

Return ==
    /\ outcome = "expanding"
    /\ deps = <<>>
    /\ todo = {}
    /\ outcome' = "expanded"
    /\ UNCHANGED <<param_dict, todo, deps, expanded_params>>

Step ==
    \/ \E n \in Params : ExpandNext(n) \/ ExpandRequired(n) \/ FindRecursion(n)
    \/ Fill
    \/ Return

(* The call has returned or raised.                                        *)
Ended == outcome # "expanding" /\ UNCHANGED vars

Next == Step \/ Ended

Spec == Init /\ [][Next]_vars

FairSpec == Spec /\ WF_vars(Step)

-----------------------------------------------------------------------------
(* Type invariant of expand_parameters.                                    *)
TypeOK ==
    /\ DOMAIN param_dict \subseteq Params
    /\ \A n \in DOMAIN param_dict : param_dict[n] \in Formats
    /\ todo \subseteq DOMAIN param_dict
    /\ deps \in Seq(DOMAIN param_dict)
    /\ DOMAIN expanded_params \subseteq DOMAIN param_dict
    /\ outcome \in {"expanding", "expanded", "recursive", "undefined"}

(* Some parameters use each other in a circle.                             *)
Circular ==
    \E S \in SUBSET DOMAIN param_dict :
        S # {} /\ \A n \in S : Uses(n) \cap S # {}

(* The verdict depends on the definitions alone and not on the order in    *)
(* which they are visited: recursion is found if parameters use each other *)
(* in a circle and only then, and a missing one only where one is missing  *)
(* (expander.py:245-277).                                                  *)
Verdict ==
    /\ outcome = "recursive" => Circular
    /\ outcome = "undefined" => \E n \in DOMAIN param_dict : Lacks(n) # {}
    /\ outcome = "expanded" =>
        ~Circular /\ \A n \in DOMAIN param_dict : Lacks(n) = {}

(* Whatever order they were expanded in, every parameter is filled with    *)
(* the final values of those it uses, and none is left out                 *)
(* (expander.py:253-277).                                                  *)
FilledWithFinalValues ==
    /\ \A n \in DOMAIN expanded_params :
            expanded_params[n] = Filled(n, expanded_params)
    /\ outcome = "expanded" => DOMAIN expanded_params = DOMAIN param_dict

(* However the parameters use each other, the recursion comes to an end.   *)
EveryExpansionEnds == <>(outcome # "expanding")
=============================================================================
