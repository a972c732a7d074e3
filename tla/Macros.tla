------------------------------- MODULE Macros -------------------------------
(***************************************************************************)
(* jenkins_jobs/expander.py for the elements of macros, and the circles in *)
(* which macros call each other.  Components hold components, so that all  *)
(* this is recursive; Registry takes the expansion as its constants        *)
(* References and Expand.                                                  *)
(***************************************************************************)
EXTENDS Registry

Refers(value) == "ref" \in DOMAIN value

(* The values an element of a macro refers to, those inside it included.   *)
RECURSIVE ReferencesIn(_)
ReferencesIn(element) ==
    {v.ref : v \in {w \in {element.name} \cup
                          {element.args[p] : p \in DOMAIN element.args} : Refers(w)}}
    \cup UNION {ReferencesIn(element.steps[i]) : i \in DOMAIN element.steps}

(* Expander.expand; a reference to a parameter that is not there stays,    *)
(* for the dispatch of such an element is refused.                         *)
RECURSIVE Expanded(_, _)
Expanded(element, params) ==
    LET filled(v) == IF Refers(v) /\ v.ref \in DOMAIN params THEN params[v.ref] ELSE v
    IN  [element EXCEPT !.name = filled(@),
                        !.args = [p \in DOMAIN @ |-> filled(@[p])],
                        !.steps = [i \in DOMAIN @ |-> Expanded(@[i], params)]]

-----------------------------------------------------------------------------
(* The macros a macro calls, by itself or in the steps of its elements.    *)
RECURSIVE Names(_, _)
Names(type, element) ==
    {<<type, element.name.lit>>} \cup
    UNION {Names("builder", element.steps[i]) : i \in DOMAIN element.steps}

Called(call) ==
    UNION {Names(call[1], macros[call[1]][call[2]].elements[i]) :
              i \in DOMAIN macros[call[1]][call[2]].elements}

AllMacros == UNION {{<<type, name>> : name \in DOMAIN macros[type]} : type \in DOMAIN macros}

Circular == \E S \in SUBSET AllMacros : S # {} /\ \A c \in S : Called(c) \cap S # {}

(* The code looks for no recursion of macros, so that Python's limit is    *)
(* all that stops one: it is met only where macros call each other in a    *)
(* circle, a macro that wraps the function it hides among them, and no     *)
(* nesting of macros that makes sense is refused (registry.py:290).        *)
RecursionOnlyInCircles == outcome = "RecursionError" => Circular
=============================================================================
