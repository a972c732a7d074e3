------------------------------- MODULE Registry -------------------------------
(***************************************************************************)
(* jenkins_jobs/registry.py with macro.py and modules/zuul.py: what is     *)
(* done with the generated jobs before there is XML.  First the modules    *)
(* amend the jobs until none changes any (only Zuul does); then each       *)
(* component of each job is dispatched: to the macro of its name, whose    *)
(* elements are dispatched in turn, or to the function that writes XML.    *)
(*                                                                         *)
(* A component is a record of its name, its arguments and, for components  *)
(* such as conditional-step, the steps inside.  In a macro an argument or  *)
(* a name may stand for a parameter of the macro.  The calls of dispatch   *)
(* that have not returned are a stack.                                     *)
(*                                                                         *)
(* A list of components is an object: two jobs that take it from the same  *)
(* parameter of the defaults, with {obj:...}, have the same.               *)
(***************************************************************************)
EXTENDS Naturals, Sequences, SequencesExt, FiniteSets

CONSTANTS
    BuiltIn,        \* type -> names of the functions that make XML (eps)
    ZuulTriggers,   \* the triggers of Zuul, with the parameters they add
    MaxDepth,       \* Python's limit on nested calls
    Components,     \* the components there are, expanded or not
    ParameterNames, \* the names and
    Values,         \* the values of their arguments and of parameters
    References(_),  \* the parameters an element of a macro refers to
    Expand(_, _)    \* the element with the parameters put in (module Macros)

(* What dict has: some parameters, each with a value.                      *)
Parameters == UNION {[names -> Values] : names \in SUBSET ParameterNames}

(* A list, whatever is in it.                                              *)
IsList(s) == s \in Seq(ToSet(s))

NoneTwice(s) == \A i, j \in DOMAIN s : s[i] = s[j] => i = j

ASSUME TypesOfComponents == "builder" \in DOMAIN BuiltIn

ASSUME DepthIsANumber == MaxDepth \in Nat

(* The steps inside a component, and what it is after its expansion, are   *)
(* components again, and so are the parameters that Zuul adds.             *)
ASSUME ComponentsOfComponents ==
    /\ \A c \in Components : c.steps \in Seq(Components) /\ c.args \in Parameters
    /\ \A c \in Components, params \in Parameters : Expand(c, params) \in Components
    /\ \A i \in DOMAIN ZuulTriggers : ToSet(ZuulTriggers[i].parameters) \subseteq Components

(* ZUUL_PARAMETERS and ZUUL_POST_PARAMETERS name every parameter once, and *)
(* each belongs to a trigger of its own.                                   *)
ASSUME TriggersOfZuul ==
    /\ IsList(ZuulTriggers)
    /\ \A i \in DOMAIN ZuulTriggers : /\ IsList(ZuulTriggers[i].parameters)
                                      /\ NoneTwice(ZuulTriggers[i].parameters)
    /\ \A i, j \in DOMAIN ZuulTriggers :
           ZuulTriggers[i].trigger = ZuulTriggers[j].trigger => i = j

VARIABLES
    macros,      \* type -> name -> the macro
    global,      \* the parameters of the defaults of macros
    loaded,      \* the list objects as they were loaded
    lists,       \* the list objects now
    jobs,        \* the jobs, with their lists
    at,          \* the job that is worked on
    section,     \* the lists of that job that were started
    changed,     \* whether this pass of amend_job_dicts changed a job
    stack,       \* the calls of dispatch that have not returned
    xml,         \* what was written for each job
    outcome      \* "amending", "dispatching", "generated" or an error

vars == <<macros, global, loaded, lists, jobs, at, section, changed, stack, xml, outcome>>

Merge(low, high) ==
    [p \in DOMAIN low \cup DOMAIN high |-> IF p \in DOMAIN high THEN high[p] ELSE low[p]]

-----------------------------------------------------------------------------
(* Macros, jobs and lists as they come from the roots: the components of a *)
(* list are of a type the modules have.                                    *)
IsMacro(macro) == macro.elements \in Seq(Components) /\ macro.params \in Parameters

WellFormed ==
    /\ DOMAIN macros = DOMAIN BuiltIn
    /\ \A type \in DOMAIN macros : \A name \in DOMAIN macros[type] : IsMacro(macros[type][name])
    /\ global \in Parameters
    /\ IsList(jobs)
    /\ \A j \in DOMAIN jobs : IsList(jobs[j].lists) /\ jobs[j].data \in Parameters
    /\ \A j \in DOMAIN jobs : \A n \in DOMAIN jobs[j].lists :
           jobs[j].lists[n].type \in DOMAIN BuiltIn
    /\ \A id \in DOMAIN loaded : loaded[id] \in Seq(Components)

Init ==
    /\ lists = loaded
    /\ at = 1 /\ section = 0
    /\ changed = FALSE
    /\ stack = << >>
    /\ xml = [j \in DOMAIN jobs |-> << >>]
    /\ outcome = "amending"

(* What the triggers in a list of triggers bring, and that list without    *)
(* them.                                                                   *)
Added(triggers) ==
    FlattenSeq([i \in DOMAIN ZuulTriggers |->
                   IF Contains(triggers, ZuulTriggers[i].trigger)
                   THEN ZuulTriggers[i].parameters ELSE << >>])

WithoutZuul(triggers) ==
    FoldLeft(LAMBDA list, z : RemoveFirst(list, z.trigger), triggers, ZuulTriggers)

(* The list of this name among all, none if there is no such list.         *)
ListOf(all, id) == IF id \in DOMAIN all THEN all[id] ELSE << >>

(* Mutant of Zuul: the parameters the job has are replaced.                *)
ZuulReplaces(job) ==
    lists' = [id \in {job.parameters, job.triggers} \cup DOMAIN lists |->
                 IF id = job.parameters THEN Added(lists[job.triggers])
                 ELSE IF id = job.triggers THEN WithoutZuul(lists[id])
                 ELSE lists[id]]

(* Zuul.amend_job_dict, for a job that has one of its triggers: the lists  *)
(* themselves are changed, a list of parameters is made if there is none.  *)
Zuul(job) ==
    lists' = [id \in {job.parameters, job.triggers} \cup DOMAIN lists |->
                 IF id = job.parameters THEN ListOf(lists, id) \o Added(lists[job.triggers])
                 ELSE IF id = job.triggers THEN WithoutZuul(lists[id])
                 ELSE lists[id]]

HasZuul(job) ==
    /\ job.triggers \in DOMAIN lists
    /\ \E i \in DOMAIN ZuulTriggers : Contains(lists[job.triggers], ZuulTriggers[i].trigger)

(* One job of a pass of amend_job_dicts.                                   *)
AmendJob ==
    /\ outcome = "amending" /\ at <= Len(jobs)
    /\ at' = at + 1
    /\ IF HasZuul(jobs[at])
       THEN Zuul(jobs[at]) /\ changed' = TRUE
       ELSE UNCHANGED <<lists, changed>>
    /\ UNCHANGED <<macros, global, loaded, jobs, section, stack, xml, outcome>>

(* Mutant of EndPass: a change is remembered for ever.                     *)
EndPassNoReset ==
    /\ outcome = "amending" /\ at > Len(jobs)
    /\ at' = 1
    /\ outcome' = IF changed THEN "amending" ELSE "dispatching"
    /\ UNCHANGED <<macros, global, loaded, lists, jobs, section, changed, stack, xml>>

(* Another pass if a job was changed.                                      *)
EndPass ==
    /\ outcome = "amending" /\ at > Len(jobs)
    /\ at' = 1
    /\ changed' = FALSE
    /\ outcome' = IF changed THEN "amending" ELSE "dispatching"
    /\ UNCHANGED <<macros, global, loaded, lists, jobs, section, stack, xml>>

-----------------------------------------------------------------------------
(* Mutant of FullParams: the macro's own parameters win.                   *)
FullParamsOwn(macro, component, job_data) ==
    Merge(Merge(Merge(global, component.args), job_data), macro.params)

(* What the elements of a macro are filled with: the defaults, its own     *)
(* parameters, the arguments of the call, and the job, the strongest last. *)
FullParams(macro, component, job_data) ==
    Merge(Merge(global, macro.params), Merge(component.args, job_data))

(* A call of dispatch for every element of a list, of_macro if they are    *)
(* the elements of a macro: only these are expanded, when their turn       *)
(* comes.  Components that hold other ones do not hand the job on          *)
(* (create_builders, create_publishers).                                   *)
Calls(type, elements, params, job_data, of_macro) ==
    [type |-> type, elements |-> elements, params |-> params, job_data |-> job_data,
     of_macro |-> of_macro]

(* The calls for a list of components of a job; only Properties hands the  *)
(* job on.                                                                 *)
CallsOfList(list, elements, job_data) ==
    Calls(list.type, elements, << >>, IF list.type = "property" THEN job_data ELSE << >>, FALSE)

Top == stack[Len(stack)]
Below == Front(stack)
Rest == [Top EXCEPT !.elements = Tail(@)]

(* Mutant of StartList: the next job starts where the last one ended.      *)
StartListNoReset ==
    /\ outcome = "dispatching" /\ stack = << >> /\ at <= Len(jobs)
    /\ IF section = Len(jobs[at].lists)
       THEN at' = at + 1 /\ UNCHANGED <<section, stack>>
       ELSE LET list == jobs[at].lists[section + 1] IN
            /\ section' = section + 1
            /\ stack' = IF list.id \notin DOMAIN lists THEN << >>
                        ELSE <<CallsOfList(list, lists[list.id], jobs[at].data)>>
            /\ UNCHANGED at
    /\ UNCHANGED <<macros, global, loaded, lists, jobs, changed, xml, outcome>>

(* The next list of components of the job, in the order of the modules     *)
(* that have them (gen_xml).                                               *)
StartList ==
    /\ outcome = "dispatching" /\ stack = << >> /\ at <= Len(jobs)
    /\ IF section = Len(jobs[at].lists)
       THEN at' = at + 1 /\ section' = 0 /\ UNCHANGED stack
       ELSE LET list == jobs[at].lists[section + 1] IN
            /\ section' = section + 1
            /\ stack' = IF list.id \notin DOMAIN lists THEN << >>
                        ELSE <<CallsOfList(list, lists[list.id], jobs[at].data)>>
            /\ UNCHANGED at
    /\ UNCHANGED <<macros, global, loaded, lists, jobs, changed, xml, outcome>>

(* ModuleRegistry.dispatch of an expanded component: a macro hides the     *)
(* function of its name.                                                   *)
Dispatch(component) ==
    LET name == component.name.lit IN
    IF name \in DOMAIN macros[Top.type]
    THEN LET macro == macros[Top.type][name] IN
         /\ stack' = Below \o <<Rest, Calls(Top.type, macro.elements,
                                            FullParams(macro, component, Top.job_data),
                                            Top.job_data, TRUE)>>
         /\ UNCHANGED <<xml, outcome>>
    ELSE IF name \in BuiltIn[Top.type]
    THEN /\ xml' = [xml EXCEPT ![at] = Append(@, <<Top.type, component>>)]
         /\ stack' = IF component.steps = << >> THEN Append(Below, Rest)
                     ELSE Below \o <<Rest, Calls("builder", component.steps, << >>, << >>, FALSE)>>
         /\ UNCHANGED outcome
    ELSE outcome' = "unknown" /\ UNCHANGED <<stack, xml>>

(* An element when it is dispatched.                                       *)
Element(call, i) ==
    IF call.of_macro THEN Expand(call.elements[i], call.params) ELSE call.elements[i]

(* Mutant of DispatchNext: a macro may not call a macro that calls one.    *)
DispatchNextShallow ==
    /\ outcome = "dispatching" /\ stack # << >> /\ Top.elements # << >>
    /\ IF Len(stack) > 3
       THEN outcome' = "RecursionError" /\ UNCHANGED <<stack, xml>>
       ELSE IF Top.of_macro /\ ~(References(Head(Top.elements)) \subseteq DOMAIN Top.params)
       THEN outcome' = "undefined" /\ UNCHANGED <<stack, xml>>
       ELSE Dispatch(Element(Top, 1))
    /\ UNCHANGED <<macros, global, loaded, lists, jobs, at, section, changed>>

(* The next element: it cannot be expanded if it refers to a parameter     *)
(* that is not there, and a macro that comes back to itself ends with      *)
(* Python's RecursionError: nothing looks for it before.                   *)
DispatchNext ==
    /\ outcome = "dispatching" /\ stack # << >> /\ Top.elements # << >>
    /\ IF Len(stack) > MaxDepth
       THEN outcome' = "RecursionError" /\ UNCHANGED <<stack, xml>>
       ELSE IF Top.of_macro /\ ~(References(Head(Top.elements)) \subseteq DOMAIN Top.params)
       THEN outcome' = "undefined" /\ UNCHANGED <<stack, xml>>
       ELSE Dispatch(Element(Top, 1))
    /\ UNCHANGED <<macros, global, loaded, lists, jobs, at, section, changed>>

ReturnFromDispatch ==
    /\ outcome = "dispatching" /\ stack # << >> /\ Top.elements = << >>
    /\ stack' = Below
    /\ UNCHANGED <<macros, global, loaded, lists, jobs, at, section, changed, xml, outcome>>

Finish ==
    /\ outcome = "dispatching" /\ stack = << >> /\ at > Len(jobs)
    /\ outcome' = "generated"
    /\ UNCHANGED <<macros, global, loaded, lists, jobs, at, section, changed, stack, xml>>

Next ==
    \/ AmendJob \/ EndPass
    \/ StartList \/ DispatchNext \/ ReturnFromDispatch \/ Finish

(* The program runs on: nothing here waits for anything.                   *)
Fairness == WF_vars(Next)

Spec == WellFormed /\ Init /\ [][Next]_vars

-----------------------------------------------------------------------------
(* The variables hold what their names say; calls are left over only by an *)
(* error.                                                                  *)
TypeOK ==
    /\ at \in 1..(Len(jobs) + 1)
    /\ at <= Len(jobs) => section \in 0..Len(jobs[at].lists)
    /\ changed \in BOOLEAN
    /\ Len(stack) <= MaxDepth + 1
    /\ \A i \in DOMAIN stack : stack[i].type \in DOMAIN BuiltIn
    /\ DOMAIN xml = DOMAIN jobs
    /\ outcome \in {"amending", "dispatching", "generated", "unknown", "undefined",
                    "RecursionError"}
    /\ outcome \in {"amending", "generated"} => stack = << >>

(* The triggers of Zuul the job had.                                       *)
Had(job) == {z \in ToSet(ZuulTriggers) : Contains(ListOf(loaded, job.triggers), z.trigger)}

(* No other job has a list that Zuul changes for this one.                 *)
OwnLists ==
    \A j \in DOMAIN jobs : Had(jobs[j]) # {} =>
        /\ jobs[j].triggers # jobs[j].parameters
        /\ \A k \in DOMAIN jobs \ {j} :
               {jobs[j].triggers, jobs[j].parameters}
                   \cap {jobs[k].triggers, jobs[k].parameters} = {}

(* No job is given a trigger of Zuul twice.                                *)
TriggersOnce ==
    \A j \in DOMAIN jobs : \A z \in Had(jobs[j]) :
        LET list == ListOf(loaded, jobs[j].triggers) IN
        \A a, b \in DOMAIN list : list[a] = z.trigger /\ list[b] = z.trigger => a = b

Occurrences(list, component) == Cardinality({i \in DOMAIN list : list[i] = component})

(* Before XML is made, every trigger of Zuul is gone, and a job whose list *)
(* had one has each of the parameters that come with it once more than     *)
(* before, however often the jobs were passed over (registry.py:160-170,   *)
(* zuul.py:189-201, "Adds parameters describing the change").              *)
ZuulAmendedOnce ==
    outcome # "amending" =>
        \A j \in DOMAIN jobs :
            LET before == ListOf(loaded, jobs[j].parameters) IN
            /\ ~HasZuul(jobs[j])
            /\ \A p \in (UNION {ToSet(z.parameters) : z \in Had(jobs[j])}) \cup ToSet(before) :
                   Occurrences(ListOf(lists, jobs[j].parameters), p) =
                       Occurrences(before, p)
                       + Cardinality({z \in Had(jobs[j]) : Contains(z.parameters, p)})

-----------------------------------------------------------------------------
(* What a job gets for its lists, told without any calls.  A part of it is *)
(* written, as it is in xml, or open: then it has the parameters of the    *)
(* job, if they are handed on, as a third member.                          *)
Parts ==
    LET Types == DOMAIN BuiltIn
    IN  (Types \X Components) \cup (Types \X Components \X Parameters)

(* The value of a parameter in a macro: that of the job, else that of the  *)
(* call, else the macro's own, else that of the defaults.                  *)
Known(macro, component, job_data) ==
    LET names == DOMAIN job_data \cup DOMAIN component.args
                 \cup DOMAIN macro.params \cup DOMAIN global
    IN  [p \in names |->
            IF p \in DOMAIN job_data THEN job_data[p]
            ELSE IF p \in DOMAIN component.args THEN component.args[p]
            ELSE IF p \in DOMAIN macro.params THEN macro.params[p] ELSE global[p]]

(* A macro stands for its elements; any other component for itself, and    *)
(* for the steps in it.                                                    *)
OfMacro(type, component, job_data) ==
    LET macro == macros[type][component.name.lit]
        params == Known(macro, component, job_data)
    IN  [i \in DOMAIN macro.elements |-> <<type, Expand(macro.elements[i], params), job_data>>]

OfOther(type, component) ==
    <<<<type, component>>>>
    \o [i \in DOMAIN component.steps |-> <<"builder", component.steps[i], << >>>>]

Unfolded ==
    [part \in Parts |->
        IF Len(part) = 2 THEN <<part>>
        ELSE IF part[2].name.lit \in DOMAIN macros[part[1]]
        THEN OfMacro(part[1], part[2], part[3])
        ELSE OfOther(part[1], part[2])]

(* The parts after each has been replaced by what it stands for, again and *)
(* again.                                                                  *)
UnfoldAll(unfolded, parts) == FlattenSeq([i \in DOMAIN parts |-> unfolded[parts[i]]])

Unfolding(unfolded, parts) ==
    LET after[n \in 0..MaxDepth] ==
            IF n = 0 THEN parts ELSE UnfoldAll(unfolded, after[n - 1])
    IN  after

PartsOf(call) ==
    [i \in DOMAIN call.elements |-> <<call.type, Element(call, i), call.job_data>>]

(* What a list of a job stands for: no part of it is left open if macros   *)
(* are not nested deeper than Python's limit allows.                       *)
Meaning(j, n) ==
    LET list == jobs[j].lists[n]
    IN  IF list.id \notin DOMAIN lists THEN << >>
        ELSE Unfolding(Unfolded, PartsOf(CallsOfList(list, lists[list.id], jobs[j].data)))[MaxDepth]

(* Macros in macros, in steps and instead of functions are written out in  *)
(* full, in order and with the right parameters: what a job gets is what   *)
(* its lists stand for (registry.py:182-302, macro.py:82-111).             *)
WrittenInFull ==
    outcome = "generated" =>
        \A j \in DOMAIN jobs :
            xml[j] = FlattenSeq([n \in DOMAIN jobs[j].lists |-> Meaning(j, n)])

(* The passes of amend_job_dicts come to an end and so does every          *)
(* dispatch, a recursive one by its exception.                             *)
EveryRunEnds == <>(outcome \notin {"amending", "dispatching"})
=============================================================================
