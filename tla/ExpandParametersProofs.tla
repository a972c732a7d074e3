----------------------- MODULE ExpandParametersProofs -----------------------
(***************************************************************************)
(* Proofs about ExpandParameters, for any parameters and values.           *)
(*                                                                         *)
(* The argument: the names in deps form a path of uses without a name      *)
(* twice, so that a name met again closes a circle; and what is expanded   *)
(* uses only what is expanded, so that a value never changes after it was  *)
(* filled and no circle can be among the names that were added one by one. *)
(***************************************************************************)
EXTENDS ExpandParameters, TLAPS

(* deps is a path of uses, of names without a value.                       *)
StackIsAPath ==
    /\ \A i \in 1..Len(deps) :
            deps[i] \notin Verbatim /\ deps[i] \notin DOMAIN expanded_params
    /\ \A i, j \in 1..Len(deps) : deps[i] = deps[j] => i = j
    /\ \A i \in 1..(Len(deps) - 1) : deps[i + 1] \in Uses(deps[i])

(* What is expanded uses only what is expanded, and lacks nothing.         *)
Closed ==
    \A n \in DOMAIN expanded_params :
        /\ Uses(n) \cap DOMAIN param_dict \subseteq DOMAIN expanded_params
        /\ Lacks(n) = {}

Final ==
    \A n \in DOMAIN expanded_params :
        expanded_params[n] = Filled(n, expanded_params)

NoCircle ==
    \A S \in SUBSET DOMAIN expanded_params :
        S # {} => \E n \in S : Uses(n) \cap S = {}

(* A defined name waits, is being expanded, or has its value.              *)
NoneLeftOut ==
    outcome \in {"expanding", "expanded"} =>
        DOMAIN param_dict \subseteq todo \cup Running \cup DOMAIN expanded_params

Returned == outcome = "expanded" => deps = <<>> /\ todo = {}

(* The inductive invariant.                                                *)
Inv ==
    /\ TypeOK
    /\ StackIsAPath
    /\ Closed
    /\ Final
    /\ NoCircle
    /\ NoneLeftOut
    /\ Returned
    /\ outcome = "recursive" => Circular
    /\ outcome = "undefined" => \E n \in DOMAIN param_dict : Lacks(n) # {}

LEMMA InvInit == Init => Inv
  <1>. SUFFICES ASSUME Init PROVE Inv
    OBVIOUS
  <1>1. DOMAIN expanded_params = {} /\ deps = <<>> /\ Len(deps) = 0
    BY DEF Init
  <1>2. DOMAIN param_dict \subseteq Params
        /\ \A n \in DOMAIN param_dict : param_dict[n] \in Formats
    BY DEF Init
  <1>3. TypeOK
    BY <1>1, <1>2 DEF Init, TypeOK
  <1>4. StackIsAPath /\ Closed /\ Final
    BY <1>1 DEF StackIsAPath, Closed, Final
  <1>5. NoCircle
    BY <1>1 DEF NoCircle
  <1>. QED
    BY <1>1, <1>3, <1>4, <1>5 DEF Init, Inv, NoneLeftOut, Returned

(* The uses and the lacks of a name change with the dictionary only.       *)
LEMMA SameUses ==
    ASSUME NEW n, param_dict' = param_dict
    PROVE  Uses(n)' = Uses(n) /\ Lacks(n)' = Lacks(n)
  BY DEF Uses, Lacks

(* Adding the value of a name whose uses are all expanded, as Fill does and *)
(* Enter with a verbatim name.                                             *)
LEMMA Grow ==
    ASSUME TypeOK, Closed, Final, NoCircle,
           NEW m \in DOMAIN param_dict \ DOMAIN expanded_params,
           Uses(m) \cap DOMAIN param_dict \subseteq DOMAIN expanded_params,
           Lacks(m) = {},
           param_dict' = param_dict,
           expanded_params' = Extended(expanded_params, m)
    PROVE  /\ DOMAIN expanded_params' = DOMAIN expanded_params \cup {m}
           /\ Closed' /\ Final' /\ NoCircle'
  <1>1. /\ DOMAIN expanded_params' = DOMAIN expanded_params \cup {m}
        /\ expanded_params'[m] = Filled(m, expanded_params)
        /\ \A n \in DOMAIN expanded_params : expanded_params'[n] = expanded_params[n]
    BY DEF Extended
  <1>2. \A n : Uses(n)' = Uses(n) /\ Lacks(n)' = Lacks(n)
    BY SameUses
  <1>3. \A n \in DOMAIN expanded_params' :
            Uses(n) \cap DOMAIN param_dict \subseteq DOMAIN expanded_params
    BY <1>1 DEF Closed
  <1>4. Closed'
    BY <1>1, <1>2, <1>3 DEF Closed
  <1>5. Final'
    <2>1. SUFFICES ASSUME NEW n \in DOMAIN expanded_params'
                   PROVE  expanded_params'[n] = Filled(n, expanded_params)'
      BY DEF Final
    <2>2. expanded_params'[n] = Filled(n, expanded_params)
      BY <1>1, <2>1 DEF Final
    <2>3. \A u \in Uses(n) :
            /\ u \in DOMAIN expanded_params' <=> u \in DOMAIN expanded_params
            /\ u \in DOMAIN expanded_params => expanded_params'[u] = expanded_params[u]
      BY <1>1, <1>3, <2>1
    <2>4. Filled(n, expanded_params)'
            = [of |-> n,
               with |-> [u \in Uses(n) |-> IF u \in DOMAIN expanded_params'
                                           THEN expanded_params'[u] ELSE Undefined]]
      BY <1>2 DEF Filled
    <2>5. [u \in Uses(n) |-> IF u \in DOMAIN expanded_params'
                             THEN expanded_params'[u] ELSE Undefined]
          = [u \in Uses(n) |-> IF u \in DOMAIN expanded_params
                               THEN expanded_params[u] ELSE Undefined]
      BY <2>3
    <2>. QED
      BY <2>2, <2>4, <2>5 DEF Filled
  <1>6. NoCircle'
    <2>1. SUFFICES ASSUME NEW S \in SUBSET DOMAIN expanded_params', S # {}
                   PROVE  \E n \in S : Uses(n) \cap S = {}
      BY <1>2 DEF NoCircle
    <2>2. \A n \in S : m \notin Uses(n)
      BY <1>3, <2>1
    <2>3. CASE S \ {m} = {}
      BY <2>1, <2>2, <2>3
    <2>4. CASE S \ {m} # {}
      <3>1. PICK n \in S \ {m} : Uses(n) \cap (S \ {m}) = {}
        BY <1>1, <2>1, <2>4 DEF NoCircle
      <3>. QED
        BY <2>2, <3>1
    <2>. QED
      BY <2>3, <2>4
  <1>. QED
    BY <1>1, <1>4, <1>5, <1>6

(* Places in a sequence of k elements.                                     *)
LEMMA Before ==
    ASSUME NEW k \in Nat, NEW i \in 1..k, NEW j \in i..k, j # k
    PROVE  j \in 1..(k - 1) /\ j + 1 \in i..k /\ j + 1 \in 1..k
  OBVIOUS

LEMMA LastOrBefore ==
    ASSUME NEW k \in Nat, NEW i \in 1..k
    PROVE  i = k \/ i \in 1..(k - 1)
  OBVIOUS

(* A name on the stack that is used by the top closes a circle.            *)
LEMMA CircleFound ==
    ASSUME TypeOK, StackIsAPath, deps # <<>>,
           NEW u \in Uses(Top) \cap Running
    PROVE  Circular
  <1>1. PICK i \in 1..Len(deps) : deps[i] = u
    BY DEF Running
  <1>. DEFINE S == {deps[j] : j \in i..Len(deps)}
  <1>2. Len(deps) \in Nat /\ deps \in [1..Len(deps) -> DOMAIN param_dict]
    BY DEF TypeOK
  <1>3. S \in SUBSET DOMAIN param_dict /\ u \in S
    BY <1>1, <1>2
  <1>4. \A n \in S : Uses(n) \cap S # {}
    <2>1. SUFFICES ASSUME NEW j \in i..Len(deps) PROVE Uses(deps[j]) \cap S # {}
      OBVIOUS
    <2>2. CASE j = Len(deps)
      BY <1>3, <2>2 DEF Top
    <2>3. CASE j # Len(deps)
      <3>1. j \in 1..(Len(deps) - 1) /\ j + 1 \in i..Len(deps)
        BY ONLY <1>2, <2>3, i \in 1..Len(deps), j \in i..Len(deps), Before
      <3>2. deps[j + 1] \in Uses(deps[j])
        BY <3>1 DEF StackIsAPath
      <3>. QED
        BY <3>1, <3>2
    <2>. QED
      BY <2>2, <2>3
  <1>. QED
    BY <1>3, <1>4 DEF Circular

(* A call is added to the stack.                                           *)
LEMMA Push ==
    ASSUME TypeOK, StackIsAPath,
           NEW n \in DOMAIN param_dict,
           n \notin DOMAIN expanded_params, n \notin Verbatim, n \notin Running,
           deps # <<>> => n \in Uses(Top),
           deps' = Append(deps, n),
           UNCHANGED <<param_dict, expanded_params>>
    PROVE  /\ deps' \in Seq(DOMAIN param_dict)
           /\ Running' = Running \cup {n}
           /\ StackIsAPath'
  <1>1. Len(deps) \in Nat /\ deps \in [1..Len(deps) -> DOMAIN param_dict]
    BY DEF TypeOK
  <1>2. /\ deps' \in Seq(DOMAIN param_dict)
        /\ Len(deps') = Len(deps) + 1
        /\ deps'[Len(deps) + 1] = n
        /\ \A i \in 1..Len(deps) : deps'[i] = deps[i]
    BY <1>1 DEF TypeOK
  <1>3. \A i \in 1..Len(deps') : i = Len(deps) + 1 \/ i \in 1..Len(deps)
    BY <1>1, <1>2
  <1>4. Running' = Running \cup {n}
    BY <1>1, <1>2, <1>3 DEF Running
  <1>5. \A m : Uses(m)' = Uses(m)
    BY SameUses
  <1>6. \A i \in 1..Len(deps') :
            deps'[i] \notin Verbatim /\ deps'[i] \notin DOMAIN expanded_params
    BY <1>2, <1>3 DEF StackIsAPath
  <1>7. \A i, j \in 1..Len(deps') : deps'[i] = deps'[j] => i = j
    BY <1>2, <1>3 DEF StackIsAPath, Running
  <1>8. \A i \in 1..(Len(deps') - 1) : deps'[i + 1] \in Uses(deps'[i])
    <2>1. SUFFICES ASSUME NEW i \in 1..Len(deps)
                   PROVE  deps'[i + 1] \in Uses(deps[i])
      BY <1>1, <1>2
    <2>2. CASE i = Len(deps)
      BY <1>1, <1>2, <2>1, <2>2 DEF Top
    <2>3. CASE i # Len(deps)
      <3>1. i \in 1..(Len(deps) - 1) /\ i + 1 \in 1..Len(deps)
        <4>1. i \in i..Len(deps)
          BY <1>1, <2>1
        <4>. QED
          BY ONLY <1>1, <2>3, i \in 1..Len(deps), <4>1, Before
      <3>2. deps[i + 1] \in Uses(deps[i])
        BY <3>1 DEF StackIsAPath
      <3>. QED
        BY <1>2, <3>1, <3>2
    <2>. QED
      BY <2>2, <2>3
  <1>. QED
    BY <1>2, <1>4, <1>5, <1>6, <1>7, <1>8 DEF StackIsAPath

(* The call on top returns.                                                *)
LEMMA Pop ==
    ASSUME TypeOK, StackIsAPath, deps # <<>>,
           deps' = SubSeq(deps, 1, Len(deps) - 1),
           UNCHANGED param_dict,
           DOMAIN expanded_params' \subseteq DOMAIN expanded_params \cup {Top}
    PROVE  /\ Top \in DOMAIN param_dict
           /\ deps' \in Seq(DOMAIN param_dict)
           /\ Running \subseteq Running' \cup {Top}
           /\ StackIsAPath'
  <1>1. Len(deps) \in Nat \ {0} /\ deps \in [1..Len(deps) -> DOMAIN param_dict]
    BY DEF TypeOK
  <1>2. /\ deps' \in Seq(DOMAIN param_dict)
        /\ Len(deps') = Len(deps) - 1
        /\ \A i \in 1..(Len(deps) - 1) : deps'[i] = deps[i]
    BY <1>1 DEF TypeOK
  <1>3. Running \subseteq Running' \cup {Top}
    <2>1. \A i \in 1..Len(deps) : i = Len(deps) \/ i \in 1..Len(deps')
      BY ONLY <1>1, <1>2, LastOrBefore
    <2>. QED
      BY <1>1, <1>2, <2>1 DEF Running, Top
  <1>4. \A m : Uses(m)' = Uses(m)
    BY SameUses
  <1>5. \A i \in 1..Len(deps') : i \in 1..Len(deps) /\ deps'[i] # Top
    BY <1>1, <1>2 DEF StackIsAPath, Top
  <1>6. \A i \in 1..Len(deps') :
            deps'[i] \notin Verbatim /\ deps'[i] \notin DOMAIN expanded_params'
    BY <1>1, <1>2, <1>5 DEF StackIsAPath
  <1>7. \A i, j \in 1..Len(deps') : deps'[i] = deps'[j] => i = j
    BY <1>1, <1>2, <1>5 DEF StackIsAPath
  <1>8. \A i \in 1..(Len(deps') - 1) : deps'[i + 1] \in Uses(deps'[i])
    <2>1. SUFFICES ASSUME NEW i \in 1..(Len(deps') - 1)
                   PROVE  deps'[i + 1] \in Uses(deps'[i])
      OBVIOUS
    <2>2. i \in 1..(Len(deps) - 1) /\ i + 1 \in 1..(Len(deps) - 1)
      BY <1>1, <1>2, <2>1
    <2>. QED
      BY <1>2, <2>2 DEF StackIsAPath
  <1>9. Top \in DOMAIN param_dict
    BY <1>1 DEF Top
  <1>. QED
    BY <1>2, <1>3, <1>4, <1>6, <1>7, <1>8, <1>9 DEF StackIsAPath

(* A name without a value and not on the stack is expanded.                *)
LEMMA EnterStep ==
    ASSUME Inv, outcome = "expanding",
           NEW n \in DOMAIN param_dict,
           n \notin DOMAIN expanded_params, n \notin Running,
           deps # <<>> => n \in Uses(Top),
           Enter(n), todo' \in SUBSET todo, todo \subseteq todo' \cup {n},
           UNCHANGED <<param_dict, outcome>>
    PROVE  Inv'
  <1>1. CASE n \in Verbatim
    <2>1. UNCHANGED deps /\ expanded_params' = Extended(expanded_params, n)
      BY <1>1 DEF Enter
    <2>2. Uses(n) = {} /\ Lacks(n) = {}
      BY <1>1 DEF Uses, Lacks
    <2>3. /\ DOMAIN expanded_params' = DOMAIN expanded_params \cup {n}
          /\ Closed' /\ Final' /\ NoCircle'
      BY <2>1, <2>2, Grow DEF Inv
    <2>4. Running' = Running /\ n \notin Running
      BY <2>1 DEF Running
    <2>5. \A m : Uses(m)' = Uses(m)
      BY SameUses
    <2>6. StackIsAPath'
      BY <2>1, <2>3, <2>5 DEF Inv, StackIsAPath, Running
    <2>. QED
      BY <2>1, <2>3, <2>4, <2>6 DEF Inv, TypeOK, NoneLeftOut, Returned
  <1>2. CASE n \notin Verbatim
    <2>1. deps' = Append(deps, n) /\ UNCHANGED expanded_params
      BY <1>2 DEF Enter
    <2>2. /\ deps' \in Seq(DOMAIN param_dict)
          /\ Running' = Running \cup {n}
          /\ StackIsAPath'
      BY <1>2, <2>1, Push DEF Inv
    <2>3. \A m : Uses(m)' = Uses(m) /\ Lacks(m)' = Lacks(m)
      BY SameUses
    <2>4. Closed' /\ NoCircle'
      BY <2>1, <2>3 DEF Inv, Closed, NoCircle
    <2>5. Final'
      BY <2>1, <2>3 DEF Inv, Final, Filled
    <2>. QED
      BY <2>1, <2>2, <2>4, <2>5 DEF Inv, TypeOK, NoneLeftOut, Returned
  <1>. QED
    BY <1>1, <1>2

(* A step that leaves the dictionary and the values alone.                 *)
LEMMA SameValues ==
    ASSUME Inv, UNCHANGED <<param_dict, expanded_params>>
    PROVE  Closed' /\ Final' /\ NoCircle' /\ (Circular' <=> Circular)
  <1>1. \A m : Uses(m)' = Uses(m) /\ Lacks(m)' = Lacks(m)
    BY SameUses
  <1>. QED
    BY <1>1 DEF Inv, Closed, Final, NoCircle, Circular, Filled

LEMMA FillStep == Inv /\ Fill => Inv'
  <1>. SUFFICES ASSUME Inv, Fill PROVE Inv'
    OBVIOUS
  <1>1. /\ outcome = "expanding" /\ deps # <<>> /\ Pending(Top) = {}
        /\ deps' = SubSeq(deps, 1, Len(deps) - 1)
        /\ UNCHANGED <<param_dict, todo>>
    BY DEF Fill
  <1>2. Top \in DOMAIN param_dict \ DOMAIN expanded_params
    <2>1. Len(deps) \in 1..Len(deps) /\ deps[Len(deps)] \in DOMAIN param_dict
      BY <1>1 DEF Inv, TypeOK
    <2>. QED
      BY <2>1 DEF Inv, StackIsAPath, Top
  <1>3. CASE Lacks(Top) = {}
    <2>1. expanded_params' = Extended(expanded_params, Top) /\ UNCHANGED outcome
      BY <1>3 DEF Fill
    <2>2. Uses(Top) \cap DOMAIN param_dict \subseteq DOMAIN expanded_params
      BY <1>1 DEF Pending
    <2>3. /\ DOMAIN expanded_params' = DOMAIN expanded_params \cup {Top}
          /\ Closed' /\ Final' /\ NoCircle'
      BY <1>1, <1>2, <1>3, <2>1, <2>2, Grow DEF Inv
    <2>4. /\ deps' \in Seq(DOMAIN param_dict)
          /\ Running \subseteq Running' \cup {Top}
          /\ StackIsAPath'
      BY <1>1, <2>3, Pop DEF Inv
    <2>. QED
      BY <1>1, <1>2, <2>1, <2>3, <2>4 DEF Inv, TypeOK, NoneLeftOut, Returned
  <1>4. CASE Lacks(Top) # {}
    <2>1. outcome' = "undefined" /\ UNCHANGED expanded_params
      BY <1>4 DEF Fill
    <2>2. deps' \in Seq(DOMAIN param_dict) /\ StackIsAPath'
      BY <1>1, <2>1, Pop DEF Inv
    <2>3. Closed' /\ Final' /\ NoCircle'
      BY <1>1, <2>1, SameValues
    <2>4. \E n \in DOMAIN param_dict' : Lacks(n)' # {}
      BY <1>1, <1>2, <1>4, SameUses
    <2>. QED
      BY <1>1, <2>1, <2>2, <2>3, <2>4 DEF Inv, TypeOK, NoneLeftOut, Returned
  <1>. QED
    BY <1>3, <1>4

LEMMA InvNext == Inv /\ [Next]_vars => Inv'
  <1>. SUFFICES ASSUME Inv, [Next]_vars PROVE Inv'
    OBVIOUS
  <1>1. CASE UNCHANGED vars
    <2>1. UNCHANGED <<param_dict, todo, deps, expanded_params, outcome>>
      BY <1>1 DEF vars
    <2>2. \A m : Uses(m)' = Uses(m) /\ Lacks(m)' = Lacks(m)
      BY <2>1, SameUses
    <2>3. Closed' /\ Final' /\ NoCircle' /\ (Circular' <=> Circular)
      BY <2>1, SameValues
    <2>4. StackIsAPath' /\ Running' = Running
      BY <2>1, <2>2 DEF Inv, StackIsAPath, Running
    <2>. QED
      BY <2>1, <2>2, <2>3, <2>4 DEF Inv, TypeOK, NoneLeftOut, Returned
  <1>2. ASSUME NEW n \in Params, ExpandNext(n) PROVE Inv'
    <2>1. /\ outcome = "expanding" /\ deps = <<>> /\ n \in todo
          /\ todo' = todo \ {n} /\ UNCHANGED <<param_dict, outcome>>
      BY <1>2 DEF ExpandNext
    <2>2. n \in DOMAIN param_dict /\ Running = {}
      BY <2>1 DEF Inv, TypeOK, Running
    <2>3. CASE n \in DOMAIN expanded_params
      <3>1. UNCHANGED <<deps, expanded_params>>
        BY <1>2, <2>3 DEF ExpandNext
      <3>2. Closed' /\ Final' /\ NoCircle'
        BY <2>1, <3>1, SameValues
      <3>3. StackIsAPath' /\ Running' = {}
        BY <2>1, <3>1 DEF StackIsAPath, Running
      <3>. QED
        BY <2>1, <2>2, <2>3, <3>1, <3>2, <3>3 DEF Inv, TypeOK, NoneLeftOut, Returned
    <2>4. CASE n \notin DOMAIN expanded_params
      <3>1. Enter(n)
        BY <1>2, <2>4 DEF ExpandNext
      <3>. QED
        BY <2>1, <2>2, <2>4, <3>1, EnterStep
    <2>. QED
      BY <2>3, <2>4
  <1>3. ASSUME NEW u \in Params, ExpandRequired(u) PROVE Inv'
    BY <1>3, EnterStep DEF ExpandRequired, Pending
  <1>4. ASSUME NEW u \in Params, FindRecursion(u) PROVE Inv'
    <2>1. /\ outcome' = "recursive"
          /\ UNCHANGED <<param_dict, todo, deps, expanded_params>>
      BY <1>4 DEF FindRecursion
    <2>2. Circular
      BY <1>4, CircleFound DEF FindRecursion, Pending, Inv
    <2>3. Closed' /\ Final' /\ NoCircle' /\ Circular'
      BY <2>1, <2>2, SameValues
    <2>4. \A m : Uses(m)' = Uses(m)
      BY <2>1, SameUses
    <2>5. StackIsAPath'
      BY <2>1, <2>4 DEF Inv, StackIsAPath
    <2>. QED
      BY <2>1, <2>3, <2>5 DEF Inv, TypeOK, NoneLeftOut, Returned
  <1>5. CASE Fill
    BY <1>5, FillStep
  <1>6. CASE Return
    <2>1. /\ deps = <<>> /\ todo = {} /\ outcome' = "expanded" /\ outcome = "expanding"
          /\ UNCHANGED <<param_dict, todo, deps, expanded_params>>
      BY <1>6 DEF Return
    <2>2. Closed' /\ Final' /\ NoCircle'
      BY <2>1, SameValues
    <2>3. StackIsAPath' /\ Running' = Running
      BY <2>1 DEF StackIsAPath, Running
    <2>. QED
      BY <2>1, <2>2, <2>3 DEF Inv, TypeOK, NoneLeftOut, Returned
  <1>. QED
    BY <1>1, <1>2, <1>3, <1>4, <1>5, <1>6 DEF Next, Step, Ended

(* The inductive invariant holds of every expansion.                       *)
THEOREM Invariance == Spec => []Inv
  BY InvInit, InvNext, PTL DEF Spec

(* The two dictionaries and the stack keep their types.                    *)
THEOREM TypeCorrect == Spec => []TypeOK
  <1>1. Inv => TypeOK
    BY DEF Inv
  <1>. QED
    BY <1>1, Invariance, PTL

(* When the call returns, every name has its value.                        *)
LEMMA AllExpanded ==
    ASSUME Inv, outcome = "expanded"
    PROVE  DOMAIN expanded_params = DOMAIN param_dict
  <1>1. todo = {} /\ deps = <<>>
    BY DEF Inv, Returned
  <1>2. Running = {}
    BY <1>1 DEF Running
  <1>3. DOMAIN param_dict \subseteq todo \cup Running \cup DOMAIN expanded_params
    BY DEF Inv, NoneLeftOut
  <1>4. DOMAIN expanded_params \subseteq DOMAIN param_dict
    BY DEF Inv, TypeOK
  <1>. QED
    BY ONLY <1>1, <1>2, <1>3, <1>4

(* Whatever the parameters and the order in which they are visited, the    *)
(* expansion fails with a recursion exactly when they use each other in a  *)
(* circle, unless one lacks a parameter, and with that only if one does    *)
(* (expander.py:245-277).                                                  *)
THEOREM RightVerdict == Spec => []Verdict
  <1>1. Inv => Verdict
    <2>. SUFFICES ASSUME Inv, outcome = "expanded"
                  PROVE  ~Circular /\ \A n \in DOMAIN param_dict : Lacks(n) = {}
      BY DEF Inv, Verdict
    <2>1. DOMAIN expanded_params = DOMAIN param_dict
      BY AllExpanded
    <2>. QED
      BY <2>1 DEF Inv, Closed, NoCircle, Circular
  <1>. QED
    BY <1>1, Invariance, PTL

(* Every parameter is filled with the final values of those it uses        *)
(* (expander.py:253-277).                                                  *)
THEOREM RightValues == Spec => []FilledWithFinalValues
  <1>1. Inv => FilledWithFinalValues
    BY AllExpanded DEF Inv, Final, FilledWithFinalValues
  <1>. QED
    BY <1>1, Invariance, PTL
=============================================================================
