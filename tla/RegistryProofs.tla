--------------------------- MODULE RegistryProofs ---------------------------
(***************************************************************************)
(* What a registry does with jobs and macros of any number, whatever the   *)
(* expansion of a component gives: the calls of dispatch stay within       *)
(* Python's limit, Zuul amends every job once, and each job gets what its  *)
(* lists stand for.                                                        *)
(***************************************************************************)
EXTENDS Registry, SequenceLemmas, FunctionTheorems

LEMMA Lists ==
    ASSUME NEW s, IsList(s)
    PROVE  /\ Len(s) \in Nat
           /\ DOMAIN s = 1..Len(s)
           /\ s = [i \in 1..Len(s) |-> s[i]]
BY DEF IsList

LEMMA ListsOf ==
    ASSUME NEW X, NEW s \in Seq(X)
    PROVE  IsList(s)
<1>1. \A i \in 1..Len(s) : s[i] \in ToSet(s)
    BY DEF ToSet
<1> QED BY <1>1 DEF IsList

-----------------------------------------------------------------------------
(* The calls of dispatch: records, of types the modules have.              *)
IsCall(c) ==
    /\ c = [x \in DOMAIN c |-> c[x]]
    /\ DOMAIN c = {"type", "elements", "params", "job_data", "of_macro"}
    /\ c.type \in DOMAIN BuiltIn

StackInv ==
    /\ IsList(stack)
    /\ \A i \in DOMAIN stack : IsCall(stack[i])

Inv ==
    /\ WellFormed
    /\ TypeOK
    /\ at \in Nat
    /\ outcome = "amending" => section = 0
    /\ StackInv

LEMMA MadeCalls ==
    ASSUME NEW type \in DOMAIN BuiltIn, NEW elements, NEW params, NEW job_data, NEW of_macro
    PROVE  IsCall(Calls(type, elements, params, job_data, of_macro))
BY DEF IsCall, Calls

LEMMA InitType == WellFormed /\ Init => Inv
<1> SUFFICES ASSUME WellFormed, Init
             PROVE  Inv
    OBVIOUS
<1>1. Len(jobs) \in Nat /\ DOMAIN jobs = 1..Len(jobs)
    BY Lists DEF WellFormed
<1>2. \A j \in DOMAIN jobs : Len(jobs[j].lists) \in Nat
    BY Lists DEF WellFormed
<1>3. StackInv
    <2>1. << >> \in Seq({})
        OBVIOUS
    <2>2. IsList(<< >>)
        BY <2>1, ListsOf
    <2> QED BY <2>2 DEF Init, StackInv
<1>4. MaxDepth \in Nat
    BY DepthIsANumber
<1>5. TypeOK
    <2>1. at \in 1..(Len(jobs) + 1)
        BY <1>1 DEF Init
    <2>2. at <= Len(jobs) => section \in 0..Len(jobs[at].lists)
        BY <1>1, <1>2 DEF Init
    <2>3. Len(stack) <= MaxDepth + 1
        BY <1>4 DEF Init
    <2>4. DOMAIN xml = DOMAIN jobs /\ \A i \in DOMAIN stack : stack[i].type \in DOMAIN BuiltIn
        BY DEF Init
    <2> QED BY <2>1, <2>2, <2>3, <2>4 DEF Init, TypeOK
<1> QED BY <1>3, <1>5 DEF Inv, Init

(* What is on the stack after one more call, and after one less.           *)
LEMMA Stacks ==
    ASSUME StackInv, stack # << >>
    PROVE  /\ IsCall(Top) /\ IsCall(Rest) /\ Rest.type = Top.type
           /\ IsList(Below) /\ Len(Below) = Len(stack) - 1
           /\ \A i \in DOMAIN Below : IsCall(Below[i])
           /\ \A c : IsCall(c) => /\ IsList(Append(Below, c))
                                  /\ Len(Append(Below, c)) = Len(stack)
                                  /\ \A i \in DOMAIN Append(Below, c) : IsCall(Append(Below, c)[i])
           /\ \A c, d : IsCall(c) /\ IsCall(d) =>
                  /\ IsList(Below \o <<c, d>>)
                  /\ Len(Below \o <<c, d>>) = Len(stack) + 1
                  /\ \A i \in DOMAIN (Below \o <<c, d>>) : IsCall((Below \o <<c, d>>)[i])
<1> DEFINE n == Len(stack)
<1>1. /\ n \in Nat \ {0} /\ DOMAIN stack = 1..n /\ stack \in Seq(ToSet(stack))
      /\ n \in DOMAIN stack
    BY Lists DEF StackInv, IsList
<1>2. IsCall(Top)
    BY <1>1 DEF StackInv, Top
<1>3. IsCall(Rest) /\ Rest.type = Top.type
    BY <1>2 DEF Rest, IsCall
<1> DEFINE b == Below
<1>4. b \in Seq(ToSet(stack)) /\ Len(b) = n - 1 /\ DOMAIN b = 1..(n - 1)
      /\ \A i \in 1..(n - 1) : b[i] = stack[i]
    BY <1>1 DEF Below, Front
<1>5. \A i \in 1..(n - 1) : IsCall(b[i])
    BY <1>1, <1>4 DEF StackInv
<1>6. IsList(b)
    BY <1>4, ListsOf
<1> HIDE DEF b, n
<1>7. ASSUME NEW c, IsCall(c)
      PROVE  /\ IsList(Append(b, c)) /\ Len(Append(b, c)) = n
             /\ \A i \in DOMAIN Append(b, c) : IsCall(Append(b, c)[i])
    <2> DEFINE X == ToSet(stack) \cup {c}
    <2>1. Append(b, c) \in Seq(X)
        BY <1>4
    <2>2. Len(Append(b, c)) = n /\ DOMAIN Append(b, c) = 1..n
        BY <1>1, <1>4
    <2>3. \A i \in 1..n : Append(b, c)[i] = IF i = n THEN c ELSE b[i]
        BY <1>1, <1>4
    <2> HIDE DEF X
    <2>4. ASSUME NEW i \in 1..n
          PROVE  IsCall(Append(b, c)[i])
        <3>1. CASE i = n
            BY <1>7, <2>3, <3>1
        <3>2. CASE i # n
            <4>1. i \in 1..(n - 1)
                BY <1>1, <3>2
            <4> QED BY <1>5, <2>3, <3>2, <4>1
        <3> QED BY <3>1, <3>2
    <2> QED BY <2>1, <2>2, <2>4, ListsOf
<1>8. ASSUME NEW c, NEW d, IsCall(c), IsCall(d)
      PROVE  /\ IsList(b \o <<c, d>>) /\ Len(b \o <<c, d>>) = n + 1
             /\ \A i \in DOMAIN (b \o <<c, d>>) : IsCall((b \o <<c, d>>)[i])
    <2> DEFINE X == ToSet(stack) \cup {c, d}
    <2>1. b \o <<c, d>> \in Seq(X)
        BY <1>4
    <2>2. Len(b \o <<c, d>>) = n + 1 /\ DOMAIN (b \o <<c, d>>) = 1..(n + 1)
        BY <1>1, <1>4
    <2>3. \A i \in 1..(n + 1) : (b \o <<c, d>>)[i] =
              IF i = n + 1 THEN d ELSE IF i = n THEN c ELSE b[i]
        BY <1>1, <1>4
    <2> HIDE DEF X
    <2>4. ASSUME NEW i \in 1..(n + 1)
          PROVE  IsCall((b \o <<c, d>>)[i])
        <3>1. CASE i = n + 1
            BY <1>8, <2>3, <3>1
        <3>2. CASE i = n
            BY <1>1, <1>8, <2>3, <3>2
        <3>3. CASE i # n + 1 /\ i # n
            <4>1. i \in 1..(n - 1)
                BY <1>1, <3>3
            <4> QED BY <1>5, <2>3, <3>3, <4>1
        <3> QED BY <3>1, <3>2, <3>3
    <2> QED BY <2>1, <2>2, <2>4, ListsOf
<1> QED
    <2> USE DEF b, n
    <2> QED BY <1>2, <1>3, <1>4, <1>5, <1>6, <1>7, <1>8

LEMMA NextType == Inv /\ [Next]_vars => Inv'
<1> SUFFICES ASSUME Inv, [Next]_vars
             PROVE  Inv'
    OBVIOUS
<1>1. /\ Len(jobs) \in Nat /\ DOMAIN jobs = 1..Len(jobs)
      /\ \A j \in DOMAIN jobs : Len(jobs[j].lists) \in Nat
      /\ \A j \in DOMAIN jobs : DOMAIN jobs[j].lists = 1..Len(jobs[j].lists)
    BY Lists DEF Inv, WellFormed
<1>2. MaxDepth \in Nat
    BY DepthIsANumber
<1>3. CASE AmendJob
    <2>1. WellFormed'
        BY <1>3 DEF AmendJob, Inv, WellFormed
    <2>2. StackInv'
        BY <1>3 DEF AmendJob, Inv, StackInv
    <2>3. at' \in 1..(Len(jobs) + 1) /\ section' = 0 /\ changed' \in BOOLEAN /\ outcome' = "amending"
        <3>1. changed' = changed \/ changed' = TRUE
            BY <1>3 DEF AmendJob
        <3>2. at \in 1..(Len(jobs) + 1) /\ at <= Len(jobs) /\ at' = at + 1 /\ section' = section
              /\ outcome = "amending" /\ outcome' = outcome
            BY <1>3 DEF AmendJob, Inv, TypeOK
        <3>3. section = 0 /\ changed \in BOOLEAN
            BY <3>2 DEF Inv, TypeOK
        <3>4. changed' \in BOOLEAN
            BY <3>1, <3>3
        <3>5. at' \in 1..(Len(jobs) + 1)
            BY <1>1, <3>2
        <3> QED BY <3>2, <3>3, <3>4, <3>5
    <2>4. TypeOK'
        BY <1>1, <1>3, <2>3 DEF AmendJob, Inv, TypeOK
    <2> QED BY <2>1, <2>2, <2>3, <2>4 DEF Inv
<1>4. CASE EndPass
    <2>1. WellFormed'
        BY <1>4 DEF EndPass, Inv, WellFormed
    <2>2. StackInv'
        BY <1>4 DEF EndPass, Inv, StackInv
    <2>3. at' \in 1..(Len(jobs) + 1) /\ section' = 0 /\ changed' \in BOOLEAN
          /\ outcome' \in {"amending", "dispatching"}
        <3>1. outcome = "amending" /\ at' = 1 /\ section' = section /\ changed' = FALSE
              /\ outcome' \in {"amending", "dispatching"}
            BY <1>4 DEF EndPass
        <3>2. changed' \in BOOLEAN
            BY <3>1
        <3>3. 1 \in 1..(Len(jobs) + 1)
            BY <1>1
        <3>4. section = 0
            BY <3>1 DEF Inv
        <3> QED BY <3>1, <3>2, <3>3, <3>4
    <2>4. TypeOK'
        BY <1>1, <1>4, <2>3 DEF EndPass, Inv, TypeOK
    <2> QED BY <2>1, <2>2, <2>3, <2>4 DEF Inv
<1>5. CASE StartList
    <2>1. WellFormed'
        BY <1>5 DEF StartList, Inv, WellFormed
    <2>2. at \in DOMAIN jobs /\ section \in 0..Len(jobs[at].lists) /\ outcome' = "dispatching"
        BY <1>1, <1>5 DEF StartList, Inv, TypeOK
    <2>3. CASE section = Len(jobs[at].lists)
        <3>1. at' = at + 1 /\ section' = 0 /\ stack' = stack
            BY <1>5, <2>3 DEF StartList
        <3>2. StackInv'
            BY <3>1 DEF Inv, StackInv
        <3>3. TypeOK'
            BY <1>1, <1>5, <2>2, <3>1 DEF StartList, Inv, TypeOK
        <3> QED BY <1>1, <2>1, <2>2, <3>1, <3>2, <3>3 DEF Inv
    <2>4. CASE section # Len(jobs[at].lists)
        <3> DEFINE list == jobs[at].lists[section + 1]
                   call == CallsOfList(list, lists[list.id], jobs[at].data)
        <3>1. section + 1 \in DOMAIN jobs[at].lists
            BY <1>1, <2>2, <2>4
        <3>2. IsCall(call)
            BY <2>2, <3>1, MadeCalls DEF Inv, WellFormed, CallsOfList
        <3>3. /\ at' = at /\ section' = section + 1
              /\ stack' = IF list.id \notin DOMAIN lists THEN << >> ELSE <<call>>
            BY <1>5, <2>4 DEF StartList
        <3> HIDE DEF call
        <3>4. StackInv' /\ Len(stack') <= 1
            <4>1. << >> \in Seq({}) /\ <<call>> \in Seq({call})
                OBVIOUS
            <4>2. IsList(<< >>) /\ IsList(<<call>>)
                BY <4>1, ListsOf
            <4> QED BY <3>2, <3>3, <4>2 DEF StackInv
        <3>5. section' \in 0..Len(jobs[at].lists)
            BY <1>1, <2>2, <3>1, <3>3
        <3>6. \A i \in DOMAIN stack' : stack'[i].type \in DOMAIN BuiltIn
            BY <3>4 DEF StackInv, IsCall
        <3>7. Len(stack') <= MaxDepth + 1
            BY <1>2, <3>3
        <3>8. TypeOK'
            BY <1>5, <2>2, <3>3, <3>5, <3>6, <3>7 DEF StartList, Inv, TypeOK
        <3> QED BY <2>1, <2>2, <3>3, <3>4, <3>8 DEF Inv
    <2> QED BY <2>3, <2>4
<1>6. CASE DispatchNext
    <2>1. WellFormed'
        BY <1>6 DEF DispatchNext, Inv, WellFormed
    <2>2. /\ stack # << >> /\ outcome = "dispatching"
          /\ at' = at /\ section' = section /\ changed' = changed /\ jobs' = jobs
        BY <1>6 DEF DispatchNext
    <2>3. Len(stack) \in Nat
        BY Lists DEF Inv, StackInv
    <2>4. /\ StackInv' /\ Len(stack') <= MaxDepth + 1 /\ DOMAIN xml' = DOMAIN xml
          /\ outcome' \in {"dispatching", "unknown", "undefined", "RecursionError"}
        <3>1. CASE stack' = stack /\ xml' = xml /\ outcome' \in {"unknown", "undefined", "RecursionError"}
            BY <3>1 DEF Inv, TypeOK, StackInv
        <3>2. CASE Len(stack) <= MaxDepth
                   /\ \E component : Dispatch(component) /\ outcome' = outcome
            <4>1. PICK component : Dispatch(component) /\ outcome' = outcome
                BY <3>2
            <4> DEFINE name == component.name.lit
                       macro == macros[Top.type][name]
                       called == Calls(Top.type, macro.elements,
                                       FullParams(macro, component, Top.job_data), Top.job_data, TRUE)
                       inner == Calls("builder", component.steps, << >>, << >>, FALSE)
            <4>2. IsCall(called) /\ IsCall(inner)
                <5>1. Top.type \in DOMAIN BuiltIn /\ "builder" \in DOMAIN BuiltIn
                    BY <2>2, Stacks, TypesOfComponents DEF Inv, IsCall
                <5> QED BY <5>1, MadeCalls
            <4>3. \/ stack' = Below \o <<Rest, called>> /\ xml' = xml
                  \/ stack' = Below \o <<Rest, inner>> /\ DOMAIN xml' = DOMAIN xml
                  \/ stack' = Append(Below, Rest) /\ DOMAIN xml' = DOMAIN xml
                  \/ stack' = stack /\ xml' = xml
                BY <4>1 DEF Dispatch
            <4> HIDE DEF called, inner
            <4>4. IsCall(Rest)
                BY <2>2, Stacks DEF Inv
            <4>5. CASE stack' = Below \o <<Rest, called>> /\ xml' = xml
                BY <1>2, <2>2, <2>3, <3>2, <4>1, <4>2, <4>4, <4>5, Stacks DEF Inv, StackInv
            <4>6. CASE stack' = Below \o <<Rest, inner>> /\ DOMAIN xml' = DOMAIN xml
                BY <1>2, <2>2, <2>3, <3>2, <4>1, <4>2, <4>4, <4>6, Stacks DEF Inv, StackInv
            <4>7. CASE stack' = Append(Below, Rest) /\ DOMAIN xml' = DOMAIN xml
                BY <1>2, <2>2, <2>3, <3>2, <4>1, <4>4, <4>7, Stacks DEF Inv, StackInv
            <4>8. CASE stack' = stack /\ xml' = xml
                BY <2>2, <4>1, <4>8 DEF Inv, TypeOK, StackInv
            <4> QED BY <4>3, <4>5, <4>6, <4>7, <4>8
        <3>3. \/ stack' = stack /\ xml' = xml /\ outcome' \in {"unknown", "undefined", "RecursionError"}
              \/ Len(stack) <= MaxDepth /\ \E component : Dispatch(component) /\ outcome' = outcome
            <4>1. CASE Len(stack) > MaxDepth
                BY <1>6, <4>1 DEF DispatchNext
            <4>2. CASE Top.of_macro /\ ~(References(Head(Top.elements)) \subseteq DOMAIN Top.params)
                BY <1>6, <4>2 DEF DispatchNext
            <4>3. CASE Len(stack) <= MaxDepth /\ Dispatch(Element(Top, 1))
                <5>1. PICK component : Dispatch(component)
                    BY <4>3
                <5>2. outcome' = outcome \/ (stack' = stack /\ xml' = xml /\ outcome' = "unknown")
                    <6> DEFINE name == component.name.lit
                    <6>1. CASE name \in DOMAIN macros[Top.type]
                        <7>1. UNCHANGED outcome
                            BY <5>1, <6>1, Zenon DEF Dispatch
                        <7> QED BY <7>1
                    <6>2. CASE name \notin DOMAIN macros[Top.type] /\ name \in BuiltIn[Top.type]
                        <7>1. UNCHANGED outcome
                            BY <5>1, <6>2, Zenon DEF Dispatch
                        <7> QED BY <7>1
                    <6>3. CASE name \notin DOMAIN macros[Top.type] /\ name \notin BuiltIn[Top.type]
                        <7>1. outcome' = "unknown" /\ UNCHANGED <<stack, xml>>
                            BY <5>1, <6>3, Zenon DEF Dispatch
                        <7> QED BY <7>1
                    <6> QED BY <6>1, <6>2, <6>3
                <5> QED BY <4>3, <5>1, <5>2
            <4>4. \/ Len(stack) > MaxDepth
                  \/ Top.of_macro /\ ~(References(Head(Top.elements)) \subseteq DOMAIN Top.params)
                  \/ Dispatch(Element(Top, 1))
                BY <1>6 DEF DispatchNext
            <4> QED BY <1>2, <2>3, <4>1, <4>2, <4>3, <4>4
        <3> QED BY <3>1, <3>2, <3>3
    <2>5. \A i \in DOMAIN stack' : stack'[i].type \in DOMAIN BuiltIn
        BY <2>4 DEF StackInv, IsCall
    <2>6. TypeOK'
        BY <2>2, <2>4, <2>5 DEF Inv, TypeOK
    <2> QED BY <2>1, <2>2, <2>4, <2>6 DEF Inv
<1>7. CASE ReturnFromDispatch
    <2>1. WellFormed'
        BY <1>7 DEF ReturnFromDispatch, Inv, WellFormed
    <2>2. /\ stack # << >> /\ stack' = Below /\ outcome' = "dispatching" /\ outcome = "dispatching"
          /\ at' = at /\ section' = section /\ changed' = changed /\ jobs' = jobs /\ xml' = xml
        BY <1>7 DEF ReturnFromDispatch
    <2>3. Len(stack) \in Nat
        BY Lists DEF Inv, StackInv
    <2>4. StackInv' /\ Len(stack') <= MaxDepth + 1
        <3>1. IsList(Below) /\ Len(Below) = Len(stack) - 1 /\ \A i \in DOMAIN Below : IsCall(Below[i])
            BY <2>2, Stacks DEF Inv
        <3>2. Len(stack) <= MaxDepth + 1
            BY DEF Inv, TypeOK
        <3>3. StackInv'
            BY <2>2, <3>1 DEF StackInv
        <3> QED BY <1>2, <2>2, <2>3, <3>1, <3>2, <3>3
    <2>5. \A i \in DOMAIN stack' : stack'[i].type \in DOMAIN BuiltIn
        BY <2>4 DEF StackInv, IsCall
    <2>6. TypeOK'
        BY <2>2, <2>4, <2>5 DEF Inv, TypeOK
    <2> QED BY <2>1, <2>2, <2>4, <2>6 DEF Inv
<1>8. CASE Finish
    <2>1. WellFormed' /\ StackInv'
        BY <1>8 DEF Finish, Inv, WellFormed, StackInv
    <2>2. TypeOK'
        BY <1>8 DEF Finish, Inv, TypeOK
    <2> QED BY <1>8, <2>1, <2>2 DEF Finish, Inv
<1>9. CASE UNCHANGED vars
    <2>1. WellFormed' /\ StackInv'
        BY <1>9 DEF vars, Inv, WellFormed, StackInv
    <2>2. TypeOK'
        BY <1>9 DEF vars, Inv, TypeOK
    <2> QED BY <1>9, <2>1, <2>2 DEF vars, Inv
<1> QED BY <1>3, <1>4, <1>5, <1>6, <1>7, <1>8, <1>9 DEF Next

(* Whatever jobs, macros and expansion there are, the calls of dispatch    *)
(* stay within Python's limit, are over when the registry ends without an  *)
(* error, and are of types the modules have (registry.py:160-302).         *)
THEOREM TypeCorrect == Spec => []TypeOK
<1>1. Inv => TypeOK
    BY DEF Inv
<1> QED BY <1>1, InitType, NextType, PTL DEF Spec

-----------------------------------------------------------------------------
(* What is in a list at most once.                                         *)
Once(s, x) == \A a, b \in DOMAIN s : s[a] = x /\ s[b] = x => a = b

In(s, x) == \E i \in DOMAIN s : s[i] = x

LEMMA FirstRemoved ==
    ASSUME NEW X, NEW s \in Seq(X), NEW e
    PROVE  /\ RemoveFirst(s, e) \in Seq(X)
           /\ \A x : Once(s, x) => Once(RemoveFirst(s, e), x)
           /\ \A x : In(RemoveFirst(s, e), x) => In(s, x)
           /\ Once(s, e) => ~In(RemoveFirst(s, e), e)
<1> DEFINE n == Len(s)
           I == {i \in 1..n : s[i] = e}
           k == Min(I)
           r == SubSeq(s, 1, k - 1) \o SubSeq(s, k + 1, n)
<1>1. n \in Nat /\ DOMAIN s = 1..n
    OBVIOUS
<1>2. CASE I = {}
    <2>1. RemoveFirst(s, e) = s
        BY <1>2 DEF RemoveFirst
    <2>2. ~In(s, e)
        BY <1>1, <1>2 DEF In
    <2> QED BY <2>1, <2>2
<1>3. CASE I # {}
    <2>1. RemoveFirst(s, e) = r
        BY <1>3 DEF RemoveFirst, RemoveAt, SelectInSeq
    <2>2. k \in 1..n /\ s[k] = e
        <3>1. I \in SUBSET (1..n)
            OBVIOUS
        <3>2. k \in I
            <4> HIDE DEF I
            <4> QED BY <1>1, <1>3, <3>1, LeastOf
        <3> HIDE DEF k
        <3> QED BY <3>2
    <2> HIDE DEF k, I
    <2> DEFINE u == SubSeq(s, 1, k - 1)
               v == SubSeq(s, k + 1, n)
    <2>3. /\ u \in Seq(X) /\ Len(u) = k - 1 /\ \A i \in 1..(k - 1) : u[i] = s[i]
          /\ v \in Seq(X) /\ Len(v) = n - k /\ \A i \in 1..(n - k) : v[i] = s[k + i]
        BY <1>1, <2>2
    <2> HIDE DEF u, v
    <2>4. u \o v \in Seq(X) /\ Len(u \o v) = n - 1 /\ DOMAIN (u \o v) = 1..(n - 1)
        <3>1. u \in Seq(X) /\ v \in Seq(X)
            BY <2>3
        <3>2. Len(u) + Len(v) = n - 1
            BY <1>1, <2>2, <2>3
        <3>3. Len(u \o v) = Len(u) + Len(v)
            BY <3>1, ConcatPlaces
        <3>4. u \o v \in Seq(X)
            BY <3>1
        <3>5. DOMAIN (u \o v) = 1..Len(u \o v)
            BY <3>4
        <3> QED BY <3>2, <3>3, <3>4, <3>5
    <2>5. ASSUME NEW i \in 1..(n - 1)
          PROVE  (u \o v)[i] = IF i < k THEN s[i] ELSE s[i + 1]
        <3>1. CASE i < k
            <4>1. i \in 1..(k - 1) /\ i \in 1..Len(u)
                BY <1>1, <2>2, <2>3, <3>1
            <4> QED BY <2>3, <3>1, <4>1, ConcatPlaces
        <3>2. CASE ~(i < k)
            <4> DEFINE a == i - (k - 1)
            <4>1. a \in 1..Len(v) /\ a \in 1..(n - k) /\ Len(u) + a = i /\ k + a = i + 1
                BY <1>1, <2>2, <2>3, <3>2
            <4> HIDE DEF a
            <4>2. (u \o v)[Len(u) + a] = v[a]
                BY <2>3, <4>1, ConcatPlaces
            <4> QED BY <2>3, <3>2, <4>1, <4>2
        <3> QED BY <3>1, <3>2
    <2>6. r = u \o v
        BY DEF u, v
    <2> DEFINE from(i) == IF i < k THEN i ELSE i + 1
    <2>7. ASSUME NEW i \in 1..(n - 1)
          PROVE  from(i) \in 1..n /\ from(i) # k /\ r[i] = s[from(i)]
        <3>1. r[i] = IF i < k THEN s[i] ELSE s[i + 1]
            BY <2>5, <2>6
        <3>2. from(i) \in 1..n /\ from(i) # k
            BY <1>1, <2>2
        <3> HIDE DEF r
        <3> QED BY <3>1, <3>2
    <2>8. \A i, j \in 1..(n - 1) : from(i) = from(j) => i = j
        BY <1>1, <2>2
    <2>9. r \in Seq(X) /\ DOMAIN r = 1..(n - 1)
        BY <2>4, <2>6
    <2> HIDE DEF r, from
    <2>10. \A x : Once(s, x) => Once(r, x)
        BY <1>1, <2>7, <2>8, <2>9 DEF Once
    <2>11. \A x : In(r, x) => In(s, x)
        BY <1>1, <2>7, <2>9 DEF In
    <2>12. Once(s, e) => ~In(r, e)
        BY <1>1, <2>2, <2>7, <2>9 DEF In, Once
    <2> QED BY <2>1, <2>9, <2>10, <2>11, <2>12
<1> QED BY <1>2, <1>3

(* The triggers of Zuul are taken out one after the other.                 *)
LEMMA WithoutZuulSteps ==
    ASSUME NEW X, NEW list \in Seq(X)
    PROVE  \E acc \in [0..Len(ZuulTriggers) -> Seq(X)] :
               /\ acc[0] = list
               /\ \A k \in 1..Len(ZuulTriggers) :
                      acc[k] = RemoveFirst(acc[k - 1], ZuulTriggers[k].trigger)
               /\ WithoutZuul(list) = acc[Len(ZuulTriggers)]
<1> DEFINE n == Len(ZuulTriggers)
           V == Seq(X)
           G == [i \in 1..n |-> [v \in V |-> RemoveFirst(v, ZuulTriggers[i].trigger)]]
           Is(f) == f = [s \in SUBSET (1..n) |->
                            IF s = {} THEN list
                            ELSE RemoveFirst(f[s \ {Max(s)}], ZuulTriggers[Max(s)].trigger)]
<1>1. n \in Nat /\ DOMAIN ZuulTriggers = 1..n
    BY TriggersOfZuul, Lists
<1>2. WithoutZuul(list) = (CHOOSE f : Is(f))[1..n]
    BY <1>1 DEF WithoutZuul, FoldLeft, MapThenFoldSet
<1>3. list \in V
    OBVIOUS
<1>4. ASSUME NEW i \in 1..n, NEW v \in V
      PROVE  RemoveFirst(v, ZuulTriggers[i].trigger) \in V
    BY FirstRemoved
<1> HIDE DEF V, n
<1>5. \A i \in 1..n : G[i] \in [V -> V]
    BY <1>4
<1>6. \A i \in 1..n : \A v \in V : G[i][v] = RemoveFirst(v, ZuulTriggers[i].trigger)
    OBVIOUS
<1> HIDE DEF G
<1>7. IsFiniteSet(1..n)
    BY <1>1, FS_Interval
<1>8. \A s \in SUBSET (1..n) : s # {} => Rightmost(n)[s] \in s
    BY <1>1, OutermostAreIn
<1>9. PICK g : Folding(g, 1..n, list, G, Rightmost(n))
    BY <1>7, <1>8, FoldingExists
<1>10. g \in [SUBSET (1..n) -> V]
    BY <1>3, <1>5, <1>7, <1>8, <1>9, FoldingType
<1>11. Is(g)
    <2>1. ASSUME NEW s \in SUBSET (1..n)
          PROVE  g[s] = IF s = {} THEN list
                        ELSE RemoveFirst(g[s \ {Max(s)}], ZuulTriggers[Max(s)].trigger)
        <3>1. Rightmost(n)[s] = Max(s)
            BY DEF Rightmost
        <3>2. CASE s # {}
            <4>1. Max(s) \in 1..n
                BY <1>1, <3>2, GreatestOf
            <4>2. g[s \ {Max(s)}] \in V
                BY <1>10
            <4>3. g[s] = G[Max(s)][g[s \ {Max(s)}]]
                BY <1>9, <3>1, <3>2 DEF Folding
            <4> QED BY <4>1, <4>2, <4>3, <1>6, <3>2
        <3>3. CASE s = {}
            BY <1>9, <3>3 DEF Folding
        <3> QED BY <3>2, <3>3
    <2>2. g = [s \in SUBSET (1..n) |-> g[s]]
        BY <1>10
    <2>3. [s \in SUBSET (1..n) |-> g[s]]
            = [s \in SUBSET (1..n) |->
                  IF s = {} THEN list
                  ELSE RemoveFirst(g[s \ {Max(s)}], ZuulTriggers[Max(s)].trigger)]
        BY <2>1
    <2> QED BY <2>2, <2>3
<1>12. PICK f : Is(f) /\ f = CHOOSE e : Is(e)
    <2> HIDE DEF Is
    <2> QED BY <1>11
<1> DEFINE acc == [k \in 0..n |-> f[1..k]]
<1>13. acc[0] = list
    <2>1. f[1..0] = list
        BY <1>12
    <2> QED BY <1>1, <2>1
<1>14. ASSUME NEW k \in 1..n
       PROVE  acc[k] = RemoveFirst(acc[k - 1], ZuulTriggers[k].trigger)
    <2> DEFINE s == 1..k
    <2>1. s \in SUBSET (1..n) /\ s \ {k} = 1..(k - 1) /\ k \in s /\ k - 1 \in 0..n /\ k \in 0..n
          /\ \A j \in s : j \in Nat /\ j <= k
        BY <1>1
    <2> HIDE DEF s
    <2>2. Max(s) = k
        <3>1. Max(s) \in s /\ \A j \in s : j <= Max(s)
            BY <1>1, <2>1, GreatestOf
        <3> QED BY <2>1, <3>1
    <2>3. f[s] = RemoveFirst(f[1..(k - 1)], ZuulTriggers[k].trigger)
        BY <1>12, <2>1, <2>2
    <2> USE DEF s
    <2> QED BY <2>1, <2>3
<1>15. acc[n] = f[1..n] /\ DOMAIN acc = 0..n
    BY <1>1
<1>16. acc = [k \in 0..n |-> acc[k]]
    OBVIOUS
<1> HIDE DEF acc
<1> DEFINE Good == {k \in Nat : k \in 0..n => acc[k] \in V}
<1>17. 0 \in Good
    BY <1>3, <1>13
<1>18. ASSUME NEW k \in Nat, k \in Good
       PROVE  k + 1 \in Good
    <2>1. CASE k + 1 \in 0..n
        <3>1. k \in 0..n /\ k + 1 \in 1..n /\ (k + 1) - 1 = k
            BY <1>1, <2>1
        <3> QED BY <1>4, <1>14, <1>18, <3>1
    <2> QED BY <2>1
<1>19. \A k \in Nat : k \in Good
    <2> HIDE DEF Good
    <2> QED BY <1>17, <1>18, Induction
<1>20. acc \in [0..n -> V]
    <2>1. \A k \in 0..n : acc[k] \in V
        BY <1>1, <1>19
    <2> QED BY <1>16, <2>1
<1>21. WithoutZuul(list) = acc[n]
    BY <1>2, <1>12, <1>15
<1> QED
    <2> USE DEF V, n
    <2> QED BY <1>13, <1>14, <1>20, <1>21

(* None is left of those that were there once.                             *)
LEMMA NoZuulLeft ==
    ASSUME NEW X, NEW list \in Seq(X),
           \A i \in DOMAIN ZuulTriggers : Once(list, ZuulTriggers[i].trigger)
    PROVE  /\ WithoutZuul(list) \in Seq(X)
           /\ \A i \in DOMAIN ZuulTriggers : ~Contains(WithoutZuul(list), ZuulTriggers[i].trigger)
<1>1. PICK acc \in [0..Len(ZuulTriggers) -> Seq(X)] :
               /\ acc[0] = list
               /\ \A k \in 1..Len(ZuulTriggers) :
                      acc[k] = RemoveFirst(acc[k - 1], ZuulTriggers[k].trigger)
               /\ WithoutZuul(list) = acc[Len(ZuulTriggers)]
    BY WithoutZuulSteps
<1> DEFINE n == Len(ZuulTriggers)
           z(i) == ZuulTriggers[i].trigger
           Clear(k) == /\ \A i \in 1..n : Once(acc[k], z(i))
                       /\ \A i \in 1..k : ~In(acc[k], z(i))
           Good == {k \in Nat : k \in 0..n => Clear(k)}
<1>2. n \in Nat /\ DOMAIN ZuulTriggers = 1..n
    BY TriggersOfZuul, Lists
<1>3. 0 \in Good
    BY <1>1, <1>2
<1>4. ASSUME NEW k \in Nat, k \in Good
      PROVE  k + 1 \in Good
    <2>1. SUFFICES ASSUME k + 1 \in 0..n
                   PROVE  Clear(k + 1)
        OBVIOUS
    <2>2. k \in 0..n /\ k + 1 \in 1..n /\ (k + 1) - 1 = k
        BY <1>2, <2>1
    <2>3. Clear(k)
        BY <1>4, <2>2
    <2>4. acc[k] \in Seq(X) /\ acc[k + 1] = RemoveFirst(acc[k], z(k + 1))
        BY <1>1, <2>2
    <2>5. /\ \A x : Once(acc[k], x) => Once(acc[k + 1], x)
          /\ \A x : In(acc[k + 1], x) => In(acc[k], x)
          /\ Once(acc[k], z(k + 1)) => ~In(acc[k + 1], z(k + 1))
        BY <2>4, FirstRemoved
    <2>6. \A i \in 1..(k + 1) : i \in 1..k \/ i = k + 1
        OBVIOUS
    <2> HIDE DEF z
    <2> QED BY <2>2, <2>3, <2>5, <2>6
<1>5. \A k \in Nat : k \in Good
    <2> HIDE DEF Good
    <2> QED BY <1>3, <1>4, Induction
<1>6. Clear(n)
    BY <1>2, <1>5
<1>7. WithoutZuul(list) = acc[n] /\ acc[n] \in Seq(X) /\ DOMAIN acc[n] = 1..Len(acc[n])
    BY <1>1, <1>2
<1> QED BY <1>2, <1>6, <1>7 DEF Contains, In

-----------------------------------------------------------------------------
LEMMA SameNumber ==
    ASSUME NEW S, NEW T, IsFiniteSet(S), NEW f \in [S -> T],
           \A a, b \in S : f[a] = f[b] => a = b,
           \A t \in T : \E s \in S : f[s] = t
    PROVE  Cardinality(S) = Cardinality(T)
<1>1. f \in Bijection(S, T)
    BY Fun_IsBij
<1>2. ExistsBijection(S, T)
    BY <1>1 DEF ExistsBijection
<1> QED BY <1>2, FS_Bijection

(* An element occurs in two lists together as often as in each.            *)
LEMMA OccurrencesAdd ==
    ASSUME NEW X, NEW u \in Seq(X), NEW v \in Seq(X), NEW p
    PROVE  Occurrences(u \o v, p) = Occurrences(u, p) + Occurrences(v, p)
<1> DEFINE m == Len(u)
           n == Len(v)
           A == {i \in 1..m : u[i] = p}
           B == {i \in 1..n : v[i] = p}
           C == {i \in 1..(m + n) : i > m /\ v[i - m] = p}
           f == [i \in B |-> m + i]
<1>1. m \in Nat /\ n \in Nat /\ DOMAIN u = 1..m /\ DOMAIN v = 1..n
    OBVIOUS
<1>2. Len(u \o v) = m + n /\ DOMAIN (u \o v) = 1..(m + n)
      /\ \A i \in 1..(m + n) : (u \o v)[i] = IF i <= m THEN u[i] ELSE v[i - m]
    <2>1. u \o v \in Seq(X) /\ Len(u \o v) = m + n
        OBVIOUS
    <2>2. DOMAIN (u \o v) = 1..(m + n)
        BY <2>1
    <2>3. \A i \in 1..(m + n) : (u \o v)[i] = IF i <= m THEN u[i] ELSE v[i - m]
        OBVIOUS
    <2> QED BY <2>1, <2>2, <2>3
<1>3. {i \in DOMAIN (u \o v) : (u \o v)[i] = p} = A \cup C
    BY <1>1, <1>2
<1>4. A \cap C = {}
    BY <1>1
<1>5. IsFiniteSet(A) /\ IsFiniteSet(B) /\ IsFiniteSet(C)
    <2>1. IsFiniteSet(1..m) /\ IsFiniteSet(1..n) /\ IsFiniteSet(1..(m + n))
        BY <1>1, FS_Interval
    <2>2. A \in SUBSET (1..m) /\ B \in SUBSET (1..n) /\ C \in SUBSET (1..(m + n))
        OBVIOUS
    <2> HIDE DEF A, B, C
    <2> QED BY <2>1, <2>2, FS_Subset
<1>6. Cardinality(B) = Cardinality(C)
    <2>1. f \in [B -> C]
        <3>1. ASSUME NEW i \in B
              PROVE  m + i \in C
            <4>1. m + i \in 1..(m + n) /\ m + i > m /\ (m + i) - m = i
                BY <1>1
            <4> QED BY <4>1
        <3> QED BY <3>1
    <2>2. \A a, b \in B : f[a] = f[b] => a = b
        BY <1>1
    <2>3. ASSUME NEW t \in C
          PROVE  \E s \in B : f[s] = t
        <3>1. t - m \in B /\ m + (t - m) = t
            BY <1>1
        <3> QED BY <3>1
    <2> HIDE DEF B, C, f
    <2> QED BY <1>5, <2>1, <2>2, <2>3, SameNumber
<1>7. Cardinality(A \cup C) = Cardinality(A) + Cardinality(C) - Cardinality(A \cap C)
    <2> HIDE DEF A, C
    <2> QED BY <1>5, FS_Union
<1>8. Cardinality(A) \in Nat /\ Cardinality(C) \in Nat /\ Cardinality({}) = 0
    <2> HIDE DEF A, C
    <2> QED BY <1>5, FS_CardinalityType, FS_EmptySet
<1>9. Cardinality(A \cup C) = Cardinality(A) + Cardinality(B)
    <2>1. Cardinality(A \cap C) = 0
        BY <1>4, <1>8
    <2> HIDE DEF A, B, C
    <2> QED BY <1>6, <1>7, <1>8, <2>1
<1>10. Occurrences(u, p) = Cardinality(A) /\ Occurrences(v, p) = Cardinality(B)
    BY <1>1 DEF Occurrences
<1>11. Occurrences(u \o v, p) = Cardinality(A \cup C)
    BY <1>3 DEF Occurrences
<1> QED
    <2> HIDE DEF A, B, C
    <2> QED BY <1>9, <1>10, <1>11

(* Each trigger brings each of its parameters once.                        *)
LEMMA OccurrencesAdded ==
    ASSUME NEW triggers, NEW p
    PROVE  /\ IsList(Added(triggers))
           /\ Occurrences(Added(triggers), p) =
                  Cardinality({z \in ToSet(ZuulTriggers) :
                                  Contains(triggers, z.trigger) /\ Contains(z.parameters, p)})
<1> DEFINE n == Len(ZuulTriggers)
           X == UNION {ToSet(ZuulTriggers[i].parameters) : i \in 1..n}
           seqs == [i \in DOMAIN ZuulTriggers |->
                       IF Contains(triggers, ZuulTriggers[i].trigger)
                       THEN ZuulTriggers[i].parameters ELSE << >>]
           flat == FlattenSeq(seqs)
           S == {z \in ToSet(ZuulTriggers) :
                    Contains(triggers, z.trigger) /\ Contains(z.parameters, p)}
           K == {k \in DOMAIN flat : flat[k] = p}
<1>1. n \in Nat /\ DOMAIN ZuulTriggers = 1..n
    BY TriggersOfZuul, Lists
<1>2. \A i \in 1..n : /\ ZuulTriggers[i].parameters \in Seq(ToSet(ZuulTriggers[i].parameters))
                      /\ NoneTwice(ZuulTriggers[i].parameters)
                      /\ \A j \in 1..n : ZuulTriggers[i].trigger = ZuulTriggers[j].trigger => i = j
    BY <1>1, TriggersOfZuul DEF IsList
<1>3. seqs \in Seq(Seq(X))
    <2>1. ASSUME NEW i \in 1..n
          PROVE  ZuulTriggers[i].parameters \in Seq(X) /\ << >> \in Seq(X)
        <3>1. ToSet(ZuulTriggers[i].parameters) \subseteq X
            OBVIOUS
        <3> HIDE DEF X
        <3> QED BY <1>2, <3>1
    <2> DEFINE Y == Seq(X)
    <2>2. seqs \in [1..n -> Y]
        <3> HIDE DEF X
        <3> QED BY <1>1, <2>1
    <2>3. seqs \in Seq(Y)
        <3> HIDE DEF seqs, Y, n
        <3> QED BY <1>1, <2>2
    <2> QED BY <2>3
<1>4. DOMAIN seqs = 1..n /\ \A i \in 1..n : seqs[i] = IF Contains(triggers, ZuulTriggers[i].trigger)
                                                 THEN ZuulTriggers[i].parameters ELSE << >>
    BY <1>1
<1>5. Added(triggers) = flat
    BY DEF Added
<1> HIDE DEF seqs, X
<1>6. flat \in Seq(X)
    BY <1>3, FlattenType
<1>7. PICK pos \in [PlacesOf(seqs) -> DOMAIN flat] :
               /\ \A q \in PlacesOf(seqs) : flat[pos[q]] = seqs[q[1]][q[2]]
               /\ \A q, r \in PlacesOf(seqs) : pos[q] = pos[r] => q = r
               /\ \A k \in DOMAIN flat : \E q \in PlacesOf(seqs) : pos[q] = k
    BY <1>3, FlattenPlaces
<1> HIDE DEF flat
<1> DEFINE place(k) == CHOOSE q \in PlacesOf(seqs) : pos[q] = k
           g == [k \in K |-> ZuulTriggers[place(k)[1]]]
<1>8. ASSUME NEW k \in K
      PROVE  LET q == place(k) IN
             /\ q \in PlacesOf(seqs) /\ pos[q] = k
             /\ q = <<q[1], q[2]>>
             /\ q[1] \in 1..n /\ Contains(triggers, ZuulTriggers[q[1]].trigger)
             /\ q[2] \in DOMAIN ZuulTriggers[q[1]].parameters
             /\ ZuulTriggers[q[1]].parameters[q[2]] = p
    <2> DEFINE q == place(k)
    <2>1. q \in PlacesOf(seqs) /\ pos[q] = k
        BY <1>7
    <2> HIDE DEF q
    <2>2. q = <<q[1], q[2]>> /\ q[1] \in 1..n /\ q[2] \in DOMAIN seqs[q[1]]
        BY <1>4, <2>1 DEF PlacesOf
    <2>3. seqs[q[1]][q[2]] = p
        BY <1>7, <2>1
    <2>4. DOMAIN << >> = {}
        OBVIOUS
    <2>5. Contains(triggers, ZuulTriggers[q[1]].trigger)
        BY <1>4, <2>2, <2>4
    <2>6. seqs[q[1]] = ZuulTriggers[q[1]].parameters
        BY <1>4, <2>2, <2>5
    <2>7. /\ q \in PlacesOf(seqs) /\ pos[q] = k
          /\ q = <<q[1], q[2]>>
          /\ q[1] \in 1..n /\ Contains(triggers, ZuulTriggers[q[1]].trigger)
          /\ q[2] \in DOMAIN ZuulTriggers[q[1]].parameters
          /\ ZuulTriggers[q[1]].parameters[q[2]] = p
        BY <2>1, <2>2, <2>3, <2>5, <2>6
    <2> QED BY <2>7 DEF q
<1> HIDE DEF place
<1>9. g \in [K -> S]
    <2>1. ASSUME NEW k \in K
          PROVE  ZuulTriggers[place(k)[1]] \in S
        <3> DEFINE i == place(k)[1]
                   a == place(k)[2]
        <3>1. i \in 1..n /\ Contains(triggers, ZuulTriggers[i].trigger)
              /\ a \in DOMAIN ZuulTriggers[i].parameters /\ ZuulTriggers[i].parameters[a] = p
            BY <1>8
        <3> HIDE DEF i, a
        <3>2. ZuulTriggers[i] \in ToSet(ZuulTriggers)
            BY <1>1, <3>1 DEF ToSet
        <3>3. Contains(ZuulTriggers[i].parameters, p)
            BY <1>2, <3>1 DEF Contains
        <3>4. ZuulTriggers[i] \in S
            BY <3>1, <3>2, <3>3
        <3> QED BY <3>4 DEF i
    <2> HIDE DEF K, S
    <2> QED BY <2>1
<1>10. ASSUME NEW k \in K, NEW l \in K, g[k] = g[l]
       PROVE  k = l
    <2> DEFINE q == place(k)
               r == place(l)
    <2>1. /\ q = <<q[1], q[2]>> /\ pos[q] = k /\ q[1] \in 1..n
          /\ q[2] \in DOMAIN ZuulTriggers[q[1]].parameters
          /\ ZuulTriggers[q[1]].parameters[q[2]] = p
        BY <1>8
    <2>2. /\ r = <<r[1], r[2]>> /\ pos[r] = l /\ r[1] \in 1..n
          /\ r[2] \in DOMAIN ZuulTriggers[r[1]].parameters
          /\ ZuulTriggers[r[1]].parameters[r[2]] = p
        BY <1>8
    <2>3. ZuulTriggers[q[1]] = ZuulTriggers[r[1]]
        BY <1>10
    <2> HIDE DEF q, r
    <2>4. q[1] = r[1]
        BY <1>2, <2>1, <2>2, <2>3
    <2>5. q[2] = r[2]
        BY <1>2, <2>1, <2>2, <2>4 DEF NoneTwice
    <2> QED BY <2>1, <2>2, <2>4, <2>5
<1>11. ASSUME NEW z \in S
       PROVE  \E k \in K : g[k] = z
    <2>1. PICK i \in 1..n : ZuulTriggers[i] = z
        BY <1>1 DEF ToSet
    <2>2. PICK a \in 1..Len(z.parameters) : z.parameters[a] = p
        BY DEF Contains
    <2>3. seqs[i] = z.parameters /\ DOMAIN z.parameters = 1..Len(z.parameters)
        BY <1>2, <1>4, <2>1
    <2>4. <<i, a>> \in PlacesOf(seqs)
        BY <1>4, <2>2, <2>3 DEF PlacesOf
    <2> DEFINE k == pos[<<i, a>>]
    <2>5. k \in K
        BY <1>7, <2>2, <2>3, <2>4
    <2>6. place(k) \in PlacesOf(seqs) /\ pos[place(k)] = k
        BY <1>8, <2>5
    <2>7. place(k) = <<i, a>>
        BY <1>7, <2>4, <2>6
    <2> HIDE DEF k, K
    <2>8. g[k] = ZuulTriggers[i]
        BY <2>5, <2>7
    <2> QED BY <2>1, <2>5, <2>8
<1>12. IsFiniteSet(K)
    <2>1. DOMAIN flat = 1..Len(flat) /\ Len(flat) \in Nat
        BY <1>6
    <2>2. IsFiniteSet(1..Len(flat))
        BY <2>1, FS_Interval
    <2>3. K \in SUBSET (1..Len(flat))
        BY <2>1
    <2> HIDE DEF K
    <2> QED BY <2>2, <2>3, FS_Subset
<1>13. Cardinality(K) = Cardinality(S)
    <2> HIDE DEF K, S, g
    <2> QED BY <1>9, <1>10, <1>11, <1>12, SameNumber
<1>14. Occurrences(flat, p) = Cardinality(K)
    BY DEF Occurrences
<1> QED BY <1>5, <1>6, <1>13, <1>14, ListsOf

-----------------------------------------------------------------------------
(* The list of this name is as it was loaded.                              *)
AsLoaded(id) ==
    /\ id \in DOMAIN lists <=> id \in DOMAIN loaded
    /\ id \in DOMAIN loaded => lists[id] = loaded[id]

Untouched(job) == AsLoaded(job.triggers) /\ AsLoaded(job.parameters)

Amended(job) ==
    LET triggers == ListOf(loaded, job.triggers) IN
    /\ Had(job) # {}
    /\ {job.triggers, job.parameters} \subseteq DOMAIN lists
    /\ lists[job.triggers] = WithoutZuul(triggers)
    /\ lists[job.parameters] = ListOf(loaded, job.parameters) \o Added(triggers)

(* Before a pass ends without a change it has gone over jobs that have no  *)
(* trigger of Zuul; and a job is as loaded or has been amended once.       *)
AmendInv ==
    /\ outcome = "amending" /\ ~changed =>
           \A j \in DOMAIN jobs : j < at => ~HasZuul(jobs[j])
    /\ outcome # "amending" => \A j \in DOMAIN jobs : ~HasZuul(jobs[j])
    /\ OwnLists /\ TriggersOnce => \A j \in DOMAIN jobs : Untouched(jobs[j]) \/ Amended(jobs[j])

(* What a job with a trigger of Zuul had when nothing was done to it.      *)
LEMMA HasHad ==
    ASSUME WellFormed, NEW j \in DOMAIN jobs, AsLoaded(jobs[j].triggers)
    PROVE  HasZuul(jobs[j]) <=> Had(jobs[j]) # {}
<1> DEFINE t == jobs[j].triggers
           n == Len(ZuulTriggers)
<1>1. DOMAIN ZuulTriggers = 1..n
    BY TriggersOfZuul, Lists
<1>2. CASE t \in DOMAIN loaded
    <2>1. t \in DOMAIN lists /\ lists[t] = ListOf(loaded, t)
        BY <1>2 DEF AsLoaded, ListOf
    <2>2. HasZuul(jobs[j]) <=> \E i \in 1..n : Contains(ListOf(loaded, t), ZuulTriggers[i].trigger)
        BY <1>1, <2>1 DEF HasZuul
    <2>3. Had(jobs[j]) # {} <=> \E i \in 1..n : Contains(ListOf(loaded, t), ZuulTriggers[i].trigger)
        BY <1>1 DEF Had, ToSet
    <2> QED BY <2>2, <2>3
<1>3. CASE t \notin DOMAIN loaded
    <2>1. t \notin DOMAIN lists
        BY <1>3 DEF AsLoaded
    <2>2. \A z : ~Contains(ListOf(loaded, t), z)
        <3>1. ListOf(loaded, t) = << >>
            BY <1>3 DEF ListOf
        <3>2. \A z : ~Contains(<< >>, z)
            BY DEF Contains
        <3> QED BY <3>1, <3>2
    <2> QED BY <2>1, <2>2 DEF HasZuul, Had
<1> QED BY <1>2, <1>3

(* A job that was amended has none left.                                   *)
LEMMA AmendedHasNone ==
    ASSUME WellFormed, TriggersOnce, NEW j \in DOMAIN jobs, Amended(jobs[j])
    PROVE  ~HasZuul(jobs[j])
<1> DEFINE t == jobs[j].triggers
           list == ListOf(loaded, t)
<1>1. t \in DOMAIN loaded
    <2>1. PICK z \in ToSet(ZuulTriggers) : Contains(list, z.trigger)
        BY DEF Amended, Had
    <2>2. ~Contains(<< >>, z.trigger)
        BY DEF Contains
    <2> QED BY <2>1, <2>2 DEF ListOf
<1>2. IsList(list)
    BY <1>1, ListsOf DEF WellFormed, ListOf
<1>3. DOMAIN list = 1..Len(list) /\ list \in Seq(ToSet(list))
    BY <1>2, Lists DEF IsList
<1> HIDE DEF list
<1>4. ASSUME NEW i \in DOMAIN ZuulTriggers
      PROVE  Once(list, ZuulTriggers[i].trigger)
    <2> DEFINE z == ZuulTriggers[i]
    <2>1. z \in ToSet(ZuulTriggers)
        BY DEF ToSet
    <2>2. CASE Contains(list, z.trigger)
        <3>1. z \in Had(jobs[j])
            BY <2>1, <2>2 DEF Had, list
        <3> QED BY <3>1 DEF TriggersOnce, Once, list
    <2>3. CASE ~Contains(list, z.trigger)
        BY <1>3, <2>3 DEF Contains, Once
    <2> QED BY <2>2, <2>3
<1>5. \A i \in DOMAIN ZuulTriggers : ~Contains(WithoutZuul(list), ZuulTriggers[i].trigger)
    BY <1>3, <1>4, NoZuulLeft
<1>6. lists[t] = WithoutZuul(list)
    BY DEF Amended, list
<1> QED BY <1>5, <1>6 DEF HasZuul

(* Zuul amends the job and leaves the others as they are.                  *)
LEMMA ZuulAmends ==
    ASSUME WellFormed, OwnLists, TriggersOnce, NEW j \in DOMAIN jobs, jobs' = jobs, loaded' = loaded,
           HasZuul(jobs[j]), Zuul(jobs[j]),
           \A k \in DOMAIN jobs : Untouched(jobs[k]) \/ Amended(jobs[k])
    PROVE  \A k \in DOMAIN jobs : (Untouched(jobs[k]) \/ Amended(jobs[k]))'
<1> DEFINE t == jobs[j].triggers
           p == jobs[j].parameters
           before == ListOf(lists, p)
<1>1. Untouched(jobs[j])
    BY AmendedHasNone
<1>2. Had(jobs[j]) # {}
    BY <1>1, HasHad DEF Untouched
<1>3. t # p
    BY <1>2 DEF OwnLists
<1>4. lists' = [id \in {p, t} \cup DOMAIN lists |->
                  IF id = p THEN before \o Added(lists[t])
                  ELSE IF id = t THEN WithoutZuul(lists[t]) ELSE lists[id]]
    BY DEF Zuul
<1>5. /\ DOMAIN lists' = {p, t} \cup DOMAIN lists
      /\ lists'[p] = before \o Added(lists[t])
      /\ lists'[t] = WithoutZuul(lists[t])
      /\ \A id \in DOMAIN lists : id # p /\ id # t => lists'[id] = lists[id]
    <2> HIDE DEF p, t, before
    <2> QED BY <1>3, <1>4
<1>6. before = ListOf(loaded, p) /\ lists[t] = ListOf(loaded, t)
    BY <1>1 DEF Untouched, AsLoaded, ListOf, HasZuul
<1>7. Amended(jobs[j])'
    <2>1. Had(jobs[j])' = Had(jobs[j])
        BY DEF Had, ListOf
    <2> QED BY <1>2, <1>5, <1>6, <2>1 DEF Amended, ListOf
<1>8. ASSUME NEW k \in DOMAIN jobs, k # j
      PROVE  (Untouched(jobs[k]) \/ Amended(jobs[k]))'
    <2> DEFINE u == jobs[k].triggers
               q == jobs[k].parameters
    <2>1. u \notin {t, p} /\ q \notin {t, p}
        BY <1>2, <1>8 DEF OwnLists
    <2>2. /\ u \in DOMAIN lists' <=> u \in DOMAIN lists
          /\ q \in DOMAIN lists' <=> q \in DOMAIN lists
          /\ u \in DOMAIN lists => lists'[u] = lists[u]
          /\ q \in DOMAIN lists => lists'[q] = lists[q]
        BY <1>5, <2>1
    <2>3. Had(jobs[k])' = Had(jobs[k])
        BY DEF Had, ListOf
    <2>4. CASE Untouched(jobs[k])
        BY <2>2, <2>4 DEF Untouched, AsLoaded
    <2>5. CASE Amended(jobs[k])
        BY <2>2, <2>3, <2>5 DEF Amended, ListOf
    <2> QED BY <2>4, <2>5
<1> QED BY <1>7, <1>8

LEMMA InitAmend == WellFormed /\ Init => AmendInv
<1> SUFFICES ASSUME WellFormed, Init
             PROVE  AmendInv
    OBVIOUS
<1>1. Len(jobs) \in Nat /\ DOMAIN jobs = 1..Len(jobs)
    BY Lists DEF WellFormed
<1>2. \A j \in DOMAIN jobs : ~(j < at)
    BY <1>1 DEF Init
<1>3. \A id : AsLoaded(id)
    BY DEF Init, AsLoaded
<1> QED BY <1>2, <1>3 DEF Init, AmendInv, Untouched

(* The invariant is about jobs, loaded and lists, the place of the pass    *)
(* and whether it is over; dispatch changes none of the first.             *)
LEMMA AmendKept ==
    ASSUME AmendInv, jobs' = jobs, loaded' = loaded, lists' = lists,
           \/ outcome # "amending" /\ outcome' # "amending"
           \/ outcome' = outcome /\ changed' = changed /\ at' = at
    PROVE  AmendInv'
<1>1. \A j \in DOMAIN jobs : HasZuul(jobs[j])' <=> HasZuul(jobs[j])
    BY DEF HasZuul
<1>2. (OwnLists /\ TriggersOnce)' <=> (OwnLists /\ TriggersOnce)
    BY DEF OwnLists, TriggersOnce, Had, ListOf
<1>3. \A j \in DOMAIN jobs : Untouched(jobs[j])' <=> Untouched(jobs[j])
    BY DEF Untouched, AsLoaded
<1>4. \A j \in DOMAIN jobs : Amended(jobs[j])' <=> Amended(jobs[j])
    BY DEF Amended, Had, ListOf
<1>5. ASSUME outcome' = "amending" /\ ~changed', NEW j \in DOMAIN jobs, j < at'
      PROVE  ~HasZuul(jobs[j])'
    <2>1. outcome = "amending" /\ ~changed /\ j < at
        BY <1>5
    <2> QED BY <1>1, <2>1 DEF AmendInv
<1>6. ASSUME outcome' # "amending", NEW j \in DOMAIN jobs
      PROVE  ~HasZuul(jobs[j])'
    <2>1. outcome # "amending"
        BY <1>6
    <2> QED BY <1>1, <2>1 DEF AmendInv
<1>7. ASSUME (OwnLists /\ TriggersOnce)', NEW j \in DOMAIN jobs
      PROVE  (Untouched(jobs[j]) \/ Amended(jobs[j]))'
    BY <1>2, <1>3, <1>4, <1>7 DEF AmendInv
<1> QED BY <1>5, <1>6, <1>7 DEF AmendInv

LEMMA NextAmend == Inv /\ AmendInv /\ [Next]_vars => AmendInv'
<1> SUFFICES ASSUME Inv, AmendInv, [Next]_vars
             PROVE  AmendInv'
    OBVIOUS
<1>1. WellFormed /\ at \in Nat /\ Len(jobs) \in Nat /\ DOMAIN jobs = 1..Len(jobs)
    BY Lists DEF Inv, WellFormed
<1>2. jobs' = jobs /\ loaded' = loaded
    BY DEF Next, vars, AmendJob, EndPass, StartList, DispatchNext, ReturnFromDispatch, Finish
<1>3. CASE AmendJob
    <2>1. at \in DOMAIN jobs /\ outcome = "amending" /\ outcome' = "amending" /\ at' = at + 1
        <3>1. at \in 1..(Len(jobs) + 1)
            BY DEF Inv, TypeOK
        <3> QED BY <1>1, <1>3, <3>1 DEF AmendJob
    <2>2. CASE HasZuul(jobs[at])
        <3>1. Zuul(jobs[at]) /\ changed' = TRUE
            BY <1>3, <2>2 DEF AmendJob
        <3>2. ASSUME (OwnLists /\ TriggersOnce)'
              PROVE  \A j \in DOMAIN jobs : (Untouched(jobs[j]) \/ Amended(jobs[j]))'
            <4>1. OwnLists /\ TriggersOnce
                BY <1>2, <3>2 DEF OwnLists, TriggersOnce, Had, ListOf
            <4>2. \A j \in DOMAIN jobs : Untouched(jobs[j]) \/ Amended(jobs[j])
                BY <4>1 DEF AmendInv
            <4> QED BY <1>1, <1>2, <2>1, <2>2, <3>1, <4>1, <4>2, ZuulAmends
        <3> QED BY <1>2, <2>1, <3>1, <3>2 DEF AmendInv
    <2>3. CASE ~HasZuul(jobs[at])
        <3>1. lists' = lists /\ changed' = changed
            BY <1>3, <2>3 DEF AmendJob
        <3>2. ASSUME ~changed', NEW j \in DOMAIN jobs, j < at'
              PROVE  ~HasZuul(jobs[j])'
            <4>1. j < at \/ j = at
                BY <1>1, <2>1, <3>2
            <4>2. ~HasZuul(jobs[j])
                BY <2>1, <2>3, <3>1, <3>2, <4>1 DEF AmendInv
            <4> QED BY <1>2, <3>1, <4>2 DEF HasZuul
        <3>3. ASSUME (OwnLists /\ TriggersOnce)', NEW j \in DOMAIN jobs
              PROVE  (Untouched(jobs[j]) \/ Amended(jobs[j]))'
            <4>1. Untouched(jobs[j]) \/ Amended(jobs[j])
                BY <1>2, <3>3 DEF AmendInv, OwnLists, TriggersOnce, Had, ListOf
            <4> QED BY <1>2, <3>1, <4>1 DEF Untouched, AsLoaded, Amended, Had, ListOf
        <3> QED BY <1>2, <2>1, <3>2, <3>3 DEF AmendInv
    <2> QED BY <2>2, <2>3
<1>4. CASE EndPass
    <2>1. outcome = "amending" /\ at > Len(jobs) /\ at' = 1 /\ lists' = lists
          /\ outcome' = (IF changed THEN "amending" ELSE "dispatching")
        BY <1>4 DEF EndPass
    <2>2. ASSUME NEW j \in DOMAIN jobs
          PROVE  ~(j < at')
        BY <1>1, <2>1, <2>2
    <2>3. ASSUME outcome' # "amending", NEW j \in DOMAIN jobs
          PROVE  ~HasZuul(jobs[j])'
        <3>1. ~changed /\ j < at
            BY <1>1, <2>1, <2>3
        <3>2. ~HasZuul(jobs[j])
            BY <2>1, <3>1 DEF AmendInv
        <3> QED BY <1>2, <2>1, <3>2 DEF HasZuul
    <2>4. ASSUME (OwnLists /\ TriggersOnce)', NEW j \in DOMAIN jobs
          PROVE  (Untouched(jobs[j]) \/ Amended(jobs[j]))'
        <3>1. Untouched(jobs[j]) \/ Amended(jobs[j])
            BY <1>2, <2>4 DEF AmendInv, OwnLists, TriggersOnce, Had, ListOf
        <3> QED BY <1>2, <2>1, <3>1 DEF Untouched, AsLoaded, Amended, Had, ListOf
    <2> QED BY <1>2, <2>2, <2>3, <2>4 DEF AmendInv
<1>5. CASE StartList \/ ReturnFromDispatch \/ Finish
    <2>1. outcome # "amending" /\ outcome' # "amending" /\ lists' = lists
        BY <1>5 DEF StartList, ReturnFromDispatch, Finish
    <2> QED BY <1>2, <2>1, AmendKept
<1>6. CASE DispatchNext
    <2>1. outcome = "dispatching" /\ lists' = lists
        BY <1>6 DEF DispatchNext
    <2>2. outcome' # "amending"
        <3>1. ASSUME NEW component, Dispatch(component)
              PROVE  outcome' \in {"dispatching", "unknown"}
            <4> DEFINE name == component.name.lit
            <4>1. CASE name \in DOMAIN macros[Top.type]
                <5>1. UNCHANGED outcome
                    BY <3>1, <4>1, Zenon DEF Dispatch
                <5> QED BY <2>1, <5>1
            <4>2. CASE name \notin DOMAIN macros[Top.type] /\ name \in BuiltIn[Top.type]
                <5>1. UNCHANGED outcome
                    BY <3>1, <4>2, Zenon DEF Dispatch
                <5> QED BY <2>1, <5>1
            <4>3. CASE name \notin DOMAIN macros[Top.type] /\ name \notin BuiltIn[Top.type]
                BY <3>1, <4>3, Zenon DEF Dispatch
            <4> QED BY <4>1, <4>2, <4>3
        <3>2. \/ outcome' \in {"RecursionError", "undefined"}
              \/ Dispatch(Element(Top, 1))
            BY <1>6 DEF DispatchNext
        <3> QED BY <3>1, <3>2
    <2> QED BY <1>2, <2>1, <2>2, AmendKept
<1>7. CASE UNCHANGED vars
    BY <1>7, AmendKept DEF vars
<1> QED BY <1>3, <1>4, <1>5, <1>6, <1>7 DEF Next

(* What the invariant says of a job when amending is over.                 *)
LEMMA AmendedOnce ==
    ASSUME WellFormed, AmendInv, OwnLists, TriggersOnce
    PROVE  ZuulAmendedOnce
<1> SUFFICES ASSUME outcome # "amending", NEW j \in DOMAIN jobs
             PROVE  LET before == ListOf(loaded, jobs[j].parameters) IN
                    /\ ~HasZuul(jobs[j])
                    /\ \A p : Occurrences(ListOf(lists, jobs[j].parameters), p) =
                                  Occurrences(before, p)
                                  + Cardinality({z \in Had(jobs[j]) : Contains(z.parameters, p)})
    BY DEF ZuulAmendedOnce
<1> DEFINE triggers == ListOf(loaded, jobs[j].triggers)
           before == ListOf(loaded, jobs[j].parameters)
           after == ListOf(lists, jobs[j].parameters)
           From(p) == {z \in Had(jobs[j]) : Contains(z.parameters, p)}
<1>1. ~HasZuul(jobs[j])
    BY DEF AmendInv
<1>2. IsList(before)
    <2>1. << >> \in Seq({})
        OBVIOUS
    <2>2. IsList(<< >>)
        BY <2>1, ListsOf
    <2> QED BY <2>2, ListsOf DEF WellFormed, ListOf
<1>3. CASE Untouched(jobs[j])
    <2>1. Had(jobs[j]) = {}
        BY <1>1, <1>3, HasHad DEF Untouched
    <2>2. after = before
        BY <1>3 DEF Untouched, AsLoaded, ListOf
    <2>3. ASSUME NEW p
          PROVE  Occurrences(after, p) = Occurrences(before, p) + Cardinality(From(p))
        <3>1. Cardinality(From(p)) = 0
            BY <2>1, FS_EmptySet
        <3>2. Occurrences(before, p) \in Nat
            <4> DEFINE S == {i \in DOMAIN before : before[i] = p}
            <4>1. Len(before) \in Nat /\ DOMAIN before = 1..Len(before)
                BY <1>2, Lists
            <4>2. IsFiniteSet(1..Len(before)) /\ S \in SUBSET (1..Len(before))
                BY <4>1, FS_Interval
            <4>3. Cardinality(S) \in Nat
                <5> HIDE DEF S
                <5> QED BY <4>2, FS_Subset, FS_CardinalityType
            <4> QED BY <4>3 DEF Occurrences
        <3> HIDE DEF after, before, From
        <3> QED BY <2>2, <3>1, <3>2
    <2> QED BY <1>1, <2>3
<1>4. CASE Amended(jobs[j])
    <2>1. after = before \o Added(triggers)
        BY <1>4 DEF Amended, ListOf
    <2>2. ASSUME NEW p
          PROVE  Occurrences(after, p) = Occurrences(before, p) + Cardinality(From(p))
        <3>1. IsList(Added(triggers))
              /\ Occurrences(Added(triggers), p) =
                     Cardinality({z \in ToSet(ZuulTriggers) :
                                     Contains(triggers, z.trigger) /\ Contains(z.parameters, p)})
            BY OccurrencesAdded
        <3>2. {z \in ToSet(ZuulTriggers) : Contains(triggers, z.trigger) /\ Contains(z.parameters, p)}
                  = From(p)
            BY DEF Had
        <3> DEFINE added == Added(triggers)
                   X == ToSet(before) \cup ToSet(added)
        <3>3. before \in Seq(X) /\ added \in Seq(X)
            <4>1. before \in Seq(ToSet(before)) /\ added \in Seq(ToSet(added))
                BY <1>2, <3>1 DEF IsList
            <4> HIDE DEF before, added
            <4> QED BY <4>1
        <3> HIDE DEF before, added, X
        <3>4. Occurrences(before \o added, p) = Occurrences(before, p) + Occurrences(added, p)
            BY <3>3, OccurrencesAdd
        <3> QED BY <2>1, <3>1, <3>2, <3>4 DEF added
    <2> QED BY <1>1, <2>2
<1> QED BY <1>3, <1>4 DEF AmendInv

(* For any jobs whose lists are their own and any triggers of Zuul in      *)
(* them: when XML is made none is left, and each job has the parameters    *)
(* its triggers bring once more than before, however many passes over the  *)
(* jobs it took (registry.py:160-170, zuul.py:189-201).                    *)
THEOREM ZuulOnce == Spec => [](OwnLists /\ TriggersOnce => ZuulAmendedOnce)
<1>1. Inv /\ AmendInv => (OwnLists /\ TriggersOnce => ZuulAmendedOnce)
    BY AmendedOnce DEF Inv
<1> QED BY <1>1, InitType, NextType, InitAmend, NextAmend, PTL DEF Spec

-----------------------------------------------------------------------------
(* Unfolding, for any parts that unfold to lists of parts.                 *)
LEMMA UnfoldedLists ==
    ASSUME NEW X, NEW f \in [X -> Seq(X)], NEW p \in Seq(X)
    PROVE  /\ [i \in DOMAIN p |-> f[p[i]]] \in Seq(Seq(X))
           /\ UnfoldAll(f, p) \in Seq(X)
<1> DEFINE V == Seq(X)
           s == [i \in DOMAIN p |-> f[p[i]]]
<1>1. s \in Seq(V)
    <2>1. Len(p) \in Nat /\ DOMAIN p = 1..Len(p) /\ \A i \in 1..Len(p) : p[i] \in X
        OBVIOUS
    <2>2. \A i \in 1..Len(p) : f[p[i]] \in V
        OBVIOUS
    <2> HIDE DEF V
    <2> QED BY <2>1, <2>2
<1>2. s \in Seq(Seq(X))
    BY <1>1
<1> HIDE DEF s
<1>3. FlattenSeq(s) \in Seq(X)
    BY <1>2, FlattenType
<1> QED BY <1>2, <1>3 DEF UnfoldAll, s

LEMMA UnfoldNone ==
    ASSUME NEW f
    PROVE  UnfoldAll(f, << >>) = << >>
<1>1. [i \in DOMAIN << >> |-> f[<< >>[i]]] = << >>
    OBVIOUS
<1> QED BY <1>1, FlattenNone DEF UnfoldAll

LEMMA UnfoldOne ==
    ASSUME NEW X, NEW f \in [X -> Seq(X)], NEW x \in X
    PROVE  UnfoldAll(f, <<x>>) = f[x]
<1>1. [i \in DOMAIN <<x>> |-> f[<<x>>[i]]] = <<f[x]>>
    OBVIOUS
<1>2. FlattenSeq(<<f[x]>>) = f[x]
    <2> DEFINE u == f[x]
    <2>1. u \in Seq(X)
        OBVIOUS
    <2> HIDE DEF u
    <2>2. FlattenSeq(<<u>>) = u
        BY <2>1, FlattenOne
    <2> QED BY <2>2 DEF u
<1> QED BY <1>1, <1>2 DEF UnfoldAll

LEMMA UnfoldConcat ==
    ASSUME NEW X, NEW f \in [X -> Seq(X)], NEW p \in Seq(X), NEW q \in Seq(X)
    PROVE  UnfoldAll(f, p \o q) = UnfoldAll(f, p) \o UnfoldAll(f, q)
<1> DEFINE s == [i \in DOMAIN p |-> f[p[i]]]
           t == [i \in DOMAIN q |-> f[q[i]]]
           r == [i \in DOMAIN (p \o q) |-> f[(p \o q)[i]]]
<1>1. s \in Seq(Seq(X)) /\ t \in Seq(Seq(X))
    BY UnfoldedLists
<1>2. r = s \o t
    <2>1. /\ Len(p) \in Nat /\ DOMAIN p = 1..Len(p) /\ Len(q) \in Nat /\ DOMAIN q = 1..Len(q)
          /\ p \o q \in Seq(X)
        OBVIOUS
    <2>2. Len(p \o q) = Len(p) + Len(q) /\ DOMAIN (p \o q) = 1..(Len(p) + Len(q))
        BY <2>1, ConcatProperties
    <2>3. Len(s) = Len(p) /\ Len(t) = Len(q)
        BY <2>1
    <2>4. DOMAIN r = 1..(Len(p) + Len(q)) /\ r = [i \in DOMAIN r |-> r[i]]
        BY <2>2
    <2> HIDE DEF s, t
    <2>5. /\ s \o t \in Seq(Seq(X)) /\ Len(s \o t) = Len(s) + Len(t)
          /\ \A i \in 1..(Len(s) + Len(t)) :
                 (s \o t)[i] = IF i <= Len(s) THEN s[i] ELSE t[i - Len(s)]
        BY <1>1, ConcatProperties
    <2>6. DOMAIN (s \o t) = 1..(Len(p) + Len(q)) /\ s \o t = [i \in DOMAIN (s \o t) |-> (s \o t)[i]]
        <3> DEFINE st == s \o t
                   W == Seq(X)
        <3>1. st \in Seq(W) /\ Len(st) = Len(p) + Len(q)
            BY <2>3, <2>5
        <3> HIDE DEF st, W
        <3>2. DOMAIN st = 1..(Len(p) + Len(q)) /\ st = [i \in DOMAIN st |-> st[i]]
            BY <3>1
        <3> QED BY <3>2 DEF st
    <2>7. ASSUME NEW i \in 1..(Len(p) + Len(q))
          PROVE  r[i] = (s \o t)[i]
        <3>1. r[i] = f[(p \o q)[i]]
            BY <2>2
        <3>2. (p \o q)[i] = IF i <= Len(p) THEN p[i] ELSE q[i - Len(p)]
            BY ConcatProperties
        <3>3. CASE i <= Len(p)
            <4>1. s[i] = f[p[i]]
                BY <2>1, <3>3 DEF s
            <4> HIDE DEF r
            <4> QED BY <2>3, <2>5, <3>1, <3>2, <3>3, <4>1
        <3>4. CASE ~(i <= Len(p))
            <4>1. i - Len(p) \in 1..Len(q)
                BY <2>1, <3>4
            <4>2. t[i - Len(p)] = f[q[i - Len(p)]]
                BY <2>1, <4>1 DEF t
            <4> HIDE DEF r
            <4> QED BY <2>3, <2>5, <3>1, <3>2, <3>4, <4>2
        <3> QED BY <3>3, <3>4
    <2> HIDE DEF r
    <2> QED BY <2>4, <2>6, <2>7
<1>3. FlattenSeq(s \o t) = FlattenSeq(s) \o FlattenSeq(t)
    <2> HIDE DEF s, t
    <2> QED BY <1>1, FlattenConcat
<1> QED BY <1>2, <1>3 DEF UnfoldAll

IsUnfolding(u, X, f, p) ==
    /\ u \in [0..MaxDepth -> Seq(X)]
    /\ u[0] = p
    /\ \A k \in 1..MaxDepth : u[k] = UnfoldAll(f, u[k - 1])

LEMMA UnfoldingSteps ==
    ASSUME NEW X, NEW f \in [X -> Seq(X)], NEW p \in Seq(X)
    PROVE  IsUnfolding(Unfolding(f, p), X, f, p)
<1> DEFINE V == Seq(X)
<1>1. p \in V /\ \A v \in V : UnfoldAll(f, v) \in V
    BY UnfoldedLists
<1>2. MaxDepth \in Nat
    BY DepthIsANumber
<1> HIDE DEF V
<1> DEFINE From(g, n) == /\ g \in [0..n -> V]
                         /\ g[0] = p
                         /\ \A k \in 1..n : g[k] = UnfoldAll(f, g[k - 1])
           S == {n \in Nat : \E g : From(g, n)}
<1>3. 0 \in S
    <2>1. From([k \in 0..0 |-> p], 0)
        BY <1>1
    <2> QED BY <2>1
<1>4. ASSUME NEW n \in Nat, n \in S
      PROVE  n + 1 \in S
    <2>1. PICK g : From(g, n)
        BY <1>4
    <2> DEFINE last == UnfoldAll(f, g[n])
               h == [k \in 0..(n + 1) |-> IF k = n + 1 THEN last ELSE g[k]]
    <2>2. last \in V
        <3>1. g[n] \in V
            BY <2>1
        <3> QED BY <1>1, <3>1
    <2> HIDE DEF last
    <2>3. h \in [0..(n + 1) -> V]
        <3>1. \A k \in 0..(n + 1) : k # n + 1 => k \in 0..n
            OBVIOUS
        <3> QED BY <2>1, <2>2, <3>1
    <2>4. h[0] = p
        BY <2>1
    <2>5. ASSUME NEW k \in 1..(n + 1)
          PROVE  h[k] = UnfoldAll(f, h[k - 1])
        <3>1. k - 1 \in 0..(n + 1) /\ k - 1 # n + 1 /\ h[k - 1] = g[k - 1]
            OBVIOUS
        <3>2. CASE k = n + 1
            <4>1. h[k] = last /\ k - 1 = n
                BY <3>2
            <4> HIDE DEF h
            <4> QED BY <3>1, <4>1 DEF last
        <3>3. CASE k # n + 1
            <4>1. k \in 1..n /\ h[k] = g[k]
                BY <3>3
            <4>2. g[k] = UnfoldAll(f, g[k - 1])
                BY <2>1, <4>1
            <4> HIDE DEF h
            <4> QED BY <3>1, <4>1, <4>2
        <3> QED BY <3>2, <3>3
    <2>6. From(h, n + 1)
        BY <2>3, <2>4, <2>5
    <2> HIDE DEF From, h
    <2> QED BY <2>6
<1>5. PICK g : From(g, MaxDepth)
    <2> HIDE DEF S
    <2>1. MaxDepth \in S
        BY <1>2, <1>3, <1>4, Induction
    <2> QED BY <2>1 DEF S
<1> DEFINE Is(h) == h = [n \in 0..MaxDepth |-> IF n = 0 THEN p ELSE UnfoldAll(f, h[n - 1])]
<1>6. Is(g)
    <2>1. g = [n \in 0..MaxDepth |-> g[n]]
        BY <1>5
    <2>2. \A n \in 0..MaxDepth : g[n] = IF n = 0 THEN p ELSE UnfoldAll(f, g[n - 1])
        <3>1. \A n \in 0..MaxDepth : n # 0 => n \in 1..MaxDepth
            BY <1>2
        <3> QED BY <1>5, <3>1
    <2>3. [n \in 0..MaxDepth |-> g[n]]
             = [n \in 0..MaxDepth |-> IF n = 0 THEN p ELSE UnfoldAll(f, g[n - 1])]
        BY <2>2
    <2> QED BY <2>1, <2>3
<1> DEFINE u == CHOOSE h : Is(h)
<1>7. Unfolding(f, p) = u
    BY DEF Unfolding
<1>8. Is(u)
    <2> HIDE DEF Is
    <2> QED BY <1>6
<1> HIDE DEF u
<1>9. DOMAIN u = 0..MaxDepth /\ u[0] = p
    BY <1>2, <1>8
<1>10. \A k \in 1..MaxDepth : u[k] = UnfoldAll(f, u[k - 1])
    BY <1>2, <1>8
<1>11. \A k \in Nat : k \in 0..MaxDepth => u[k] \in V
    <2> DEFINE T == {k \in Nat : k \in 0..MaxDepth => u[k] \in V}
    <2>1. 0 \in T
        BY <1>1, <1>9
    <2>2. ASSUME NEW k \in Nat, k \in T
          PROVE  k + 1 \in T
        <3>1. CASE k + 1 \in 0..MaxDepth
            <4>1. k \in 0..MaxDepth /\ k + 1 \in 1..MaxDepth /\ (k + 1) - 1 = k
                BY <1>2, <3>1
            <4>2. u[k] \in V
                BY <2>2, <4>1
            <4>3. u[k + 1] = UnfoldAll(f, u[k])
                BY <1>10, <4>1
            <4> QED BY <1>1, <4>2, <4>3
        <3>2. CASE k + 1 \notin 0..MaxDepth
            BY <3>2
        <3> QED BY <3>1, <3>2
    <2> HIDE DEF T
    <2>3. \A k \in Nat : k \in T
        BY <2>1, <2>2, Induction
    <2> QED BY <2>3 DEF T
<1>12. u \in [0..MaxDepth -> V]
    <2>1. u = [n \in 0..MaxDepth |-> u[n]]
        BY <1>8, <1>9
    <2>2. \A n \in 0..MaxDepth : u[n] \in V
        BY <1>11
    <2> QED BY <2>1, <2>2
<1> QED BY <1>7, <1>9, <1>10, <1>12 DEF V, IsUnfolding

(* Two lists of parts unfold side by side.                                 *)
SideBySide(f, p, q) ==
    \A k \in 0..MaxDepth :
        Unfolding(f, p \o q)[k] = Unfolding(f, p)[k] \o Unfolding(f, q)[k]

LEMMA UnfoldingConcat ==
    ASSUME NEW X, NEW f \in [X -> Seq(X)], NEW p \in Seq(X), NEW q \in Seq(X)
    PROVE  SideBySide(f, p, q)
<1> DEFINE u == Unfolding(f, p)
           v == Unfolding(f, q)
           w == Unfolding(f, p \o q)
           V == Seq(X)
<1>1. MaxDepth \in Nat
    BY DepthIsANumber
<1>2. /\ u \in [0..MaxDepth -> V] /\ u[0] = p
      /\ \A k \in 1..MaxDepth : u[k] = UnfoldAll(f, u[k - 1])
    BY UnfoldingSteps DEF IsUnfolding
<1>3. /\ v \in [0..MaxDepth -> V] /\ v[0] = q
      /\ \A k \in 1..MaxDepth : v[k] = UnfoldAll(f, v[k - 1])
    BY UnfoldingSteps DEF IsUnfolding
<1>4. w[0] = p \o q /\ \A k \in 1..MaxDepth : w[k] = UnfoldAll(f, w[k - 1])
    <2>1. p \o q \in Seq(X)
        OBVIOUS
    <2>2. IsUnfolding(w, X, f, p \o q)
        BY <2>1, UnfoldingSteps
    <2> HIDE DEF w
    <2> QED BY <2>2 DEF IsUnfolding
<1>5. \A a, b \in V : UnfoldAll(f, a \o b) = UnfoldAll(f, a) \o UnfoldAll(f, b)
    BY UnfoldConcat
<1> HIDE DEF u, v, w, V
<1> DEFINE S == {k \in Nat : k \in 0..MaxDepth => w[k] = u[k] \o v[k]}
<1>6. 0 \in S
    BY <1>2, <1>3, <1>4
<1>7. ASSUME NEW k \in Nat, k \in S
      PROVE  k + 1 \in S
    <2>1. ASSUME k + 1 \in 0..MaxDepth
          PROVE  w[k + 1] = u[k + 1] \o v[k + 1]
        <3>1. k \in 0..MaxDepth /\ k + 1 \in 1..MaxDepth /\ (k + 1) - 1 = k
            BY <1>1, <2>1
        <3>2. w[k] = u[k] \o v[k]
            BY <1>7, <3>1
        <3>3. /\ w[k + 1] = UnfoldAll(f, w[k])
              /\ u[k + 1] = UnfoldAll(f, u[k]) /\ u[k] \in V
              /\ v[k + 1] = UnfoldAll(f, v[k]) /\ v[k] \in V
            BY <1>2, <1>3, <1>4, <3>1
        <3> QED BY <1>5, <3>2, <3>3
    <2>2. k + 1 \in Nat
        OBVIOUS
    <2> QED BY <2>1, <2>2
<1>8. \A k \in Nat : k \in S
    <2> HIDE DEF S
    <2> QED BY <1>6, <1>7, Induction
<1>9. \A k \in 0..MaxDepth : w[k] = u[k] \o v[k]
    <2>1. \A k \in 0..MaxDepth : k \in Nat
        BY <1>1
    <2> QED BY <1>8, <2>1
<1> QED BY <1>9 DEF u, v, w, SideBySide

(* What stays as it is once is never changed.                              *)
LEMMA UnfoldingStays ==
    ASSUME NEW X, NEW f \in [X -> Seq(X)], NEW p \in Seq(X), UnfoldAll(f, p) = p
    PROVE  \A k \in 0..MaxDepth : Unfolding(f, p)[k] = p
<1> DEFINE u == Unfolding(f, p)
<1>1. MaxDepth \in Nat
    BY DepthIsANumber
<1>2. u[0] = p /\ \A k \in 1..MaxDepth : u[k] = UnfoldAll(f, u[k - 1])
    BY UnfoldingSteps DEF IsUnfolding
<1> HIDE DEF u
<1> DEFINE S == {k \in Nat : k \in 0..MaxDepth => u[k] = p}
<1>3. 0 \in S
    BY <1>2
<1>4. ASSUME NEW k \in Nat, k \in S
      PROVE  k + 1 \in S
    <2>1. CASE k + 1 \in 0..MaxDepth
        <3>1. k \in 0..MaxDepth /\ k + 1 \in 1..MaxDepth /\ (k + 1) - 1 = k
            BY <1>1, <2>1
        <3>2. u[k] = p /\ u[k + 1] = UnfoldAll(f, u[k])
            BY <1>2, <1>4, <3>1
        <3> QED BY <3>2
    <2>2. CASE k + 1 \notin 0..MaxDepth
        BY <2>2
    <2> QED BY <2>1, <2>2
<1>5. \A k \in Nat : k \in S
    <2> HIDE DEF S
    <2> QED BY <1>3, <1>4, Induction
<1>6. \A k \in 0..MaxDepth : u[k] = p
    <2>1. \A k \in 0..MaxDepth : k \in Nat
        BY <1>1
    <2> QED BY <1>5, <2>1
<1> QED BY <1>6 DEF u

LEMMA UnfoldingNone ==
    ASSUME NEW X, NEW f \in [X -> Seq(X)]
    PROVE  \A k \in 0..MaxDepth : Unfolding(f, << >>)[k] = << >>
<1> DEFINE none == << >>
<1>1. none \in Seq(X) /\ UnfoldAll(f, none) = none
    BY UnfoldNone
<1> HIDE DEF none
<1>2. \A k \in 0..MaxDepth : Unfolding(f, none)[k] = none
    BY <1>1, UnfoldingStays
<1> QED BY <1>2 DEF none

(* One step of it done before the others.                                  *)
LEMMA UnfoldingLater ==
    ASSUME NEW X, NEW f \in [X -> Seq(X)], NEW p \in Seq(X)
    PROVE  \A k \in 1..MaxDepth :
               Unfolding(f, p)[k] = Unfolding(f, UnfoldAll(f, p))[k - 1]
<1> DEFINE u == Unfolding(f, p)
           q == UnfoldAll(f, p)
           v == Unfolding(f, q)
<1>1. MaxDepth \in Nat
    BY DepthIsANumber
<1>2. u[0] = p /\ \A k \in 1..MaxDepth : u[k] = UnfoldAll(f, u[k - 1])
    BY UnfoldingSteps DEF IsUnfolding
<1>3. q \in Seq(X) /\ q = UnfoldAll(f, p)
    BY UnfoldedLists
<1> HIDE DEF u, q
<1>4. v[0] = q /\ \A k \in 1..MaxDepth : v[k] = UnfoldAll(f, v[k - 1])
    BY <1>3, UnfoldingSteps DEF IsUnfolding
<1> HIDE DEF v
<1> DEFINE S == {k \in Nat : k + 1 \in 1..MaxDepth => u[k + 1] = v[k]}
<1>5. 0 \in S
    <2>1. 1 \in 1..MaxDepth => u[1] = UnfoldAll(f, u[1 - 1])
        BY <1>2
    <2> QED BY <1>2, <1>3, <1>4, <2>1
<1>6. ASSUME NEW k \in Nat, k \in S
      PROVE  k + 1 \in S
    <2>1. CASE (k + 1) + 1 \in 1..MaxDepth
        <3>1. k + 1 \in 1..MaxDepth /\ ((k + 1) + 1) - 1 = k + 1 /\ (k + 1) - 1 = k
            BY <1>1, <2>1
        <3>2. u[k + 1] = v[k]
            BY <1>6, <3>1
        <3>3. u[(k + 1) + 1] = UnfoldAll(f, u[k + 1])
            BY <1>2, <2>1, <3>1
        <3>4. v[k + 1] = UnfoldAll(f, v[k])
            BY <1>4, <3>1
        <3> QED BY <3>2, <3>3, <3>4
    <2>2. CASE (k + 1) + 1 \notin 1..MaxDepth
        BY <2>2
    <2> QED BY <2>1, <2>2
<1>7. \A k \in Nat : k \in S
    <2> HIDE DEF S
    <2> QED BY <1>5, <1>6, Induction
<1>8. ASSUME NEW k \in 1..MaxDepth
      PROVE  u[k] = v[k - 1]
    <2>1. k - 1 \in Nat /\ (k - 1) + 1 = k
        BY <1>1
    <2>2. k - 1 \in S
        BY <1>7, <2>1
    <2> QED BY <2>1, <2>2
<1> QED BY <1>8 DEF u, v, q

-----------------------------------------------------------------------------
(* Parameters, and what the parts of the model unfold to.                  *)
LEMMA NoParameters == << >> \in Parameters
<1>1. << >> \in [{} -> Values]
    OBVIOUS
<1> QED BY <1>1 DEF Parameters

LEMMA ParametersAre ==
    ASSUME NEW p \in Parameters
    PROVE  /\ DOMAIN p \in SUBSET ParameterNames
           /\ p = [x \in DOMAIN p |-> p[x]]
           /\ \A x \in DOMAIN p : p[x] \in Values
BY DEF Parameters

LEMMA Merged ==
    ASSUME NEW a \in Parameters, NEW b \in Parameters
    PROVE  Merge(a, b) \in Parameters
<1> DEFINE names == DOMAIN a \cup DOMAIN b
           m == Merge(a, b)
<1>1. names \in SUBSET ParameterNames
    BY ParametersAre
<1>2. m \in [names -> Values]
    BY ParametersAre DEF Merge
<1> HIDE DEF names, m
<1>3. m \in Parameters
    BY <1>1, <1>2 DEF Parameters
<1> QED BY <1>3 DEF m

(* The merging of four dicts, the strongest last, gives every parameter    *)
(* the value of the strongest that has it.                                 *)
LEMMA AllParameters ==
    ASSUME NEW macro, NEW component, NEW job_data \in Parameters, global \in Parameters,
           macro.params \in Parameters, component.args \in Parameters
    PROVE  /\ FullParams(macro, component, job_data) \in Parameters
           /\ FullParams(macro, component, job_data) = Known(macro, component, job_data)
<1>1. FullParams(macro, component, job_data) \in Parameters
    BY Merged DEF FullParams
<1> DEFINE g == global
           m == macro.params
           c == component.args
           j == job_data
<1>2. FullParams(macro, component, job_data) = Merge(Merge(g, m), Merge(c, j))
    BY DEF FullParams
<1>3. Known(macro, component, job_data)
        = [p \in DOMAIN j \cup DOMAIN c \cup DOMAIN m \cup DOMAIN g |->
              IF p \in DOMAIN j THEN j[p]
              ELSE IF p \in DOMAIN c THEN c[p]
              ELSE IF p \in DOMAIN m THEN m[p] ELSE g[p]]
    BY DEF Known
<1> HIDE DEF g, m, c, j
<1>4. Merge(Merge(g, m), Merge(c, j))
        = [p \in DOMAIN j \cup DOMAIN c \cup DOMAIN m \cup DOMAIN g |->
              IF p \in DOMAIN j THEN j[p]
              ELSE IF p \in DOMAIN c THEN c[p]
              ELSE IF p \in DOMAIN m THEN m[p] ELSE g[p]]
    BY DEF Merge
<1> QED BY <1>1, <1>2, <1>3, <1>4

(* The calls of dispatch there can be.                                     *)
CallsOfDispatch ==
    [type : DOMAIN BuiltIn, elements : Seq(Components), params : Parameters,
     job_data : Parameters, of_macro : BOOLEAN]

LEMMA CallsAre ==
    ASSUME NEW type \in DOMAIN BuiltIn, NEW elements \in Seq(Components),
           NEW params \in Parameters, NEW job_data \in Parameters, NEW of_macro \in BOOLEAN
    PROVE  Calls(type, elements, params, job_data, of_macro) \in CallsOfDispatch
BY DEF Calls, CallsOfDispatch

LEMMA ElementsAre ==
    ASSUME NEW call \in CallsOfDispatch, NEW i \in DOMAIN call.elements
    PROVE  Element(call, i) \in Components
<1>1. call.elements \in Seq(Components) /\ call.params \in Parameters
    BY DEF CallsOfDispatch
<1>2. call.elements[i] \in Components
    BY <1>1
<1>3. Expand(call.elements[i], call.params) \in Components
    BY <1>1, <1>2, ComponentsOfComponents
<1> QED BY <1>2, <1>3 DEF Element

LEMMA OpenPart ==
    ASSUME NEW type \in DOMAIN BuiltIn, NEW c \in Components, NEW d \in Parameters
    PROVE  <<type, c, d>> \in Parts /\ Len(<<type, c, d>>) = 3
BY DEF Parts

LEMMA WrittenPart ==
    ASSUME NEW type \in DOMAIN BuiltIn, NEW c \in Components
    PROVE  <<type, c>> \in Parts /\ Len(<<type, c>>) = 2
BY DEF Parts

LEMMA PartsAre ==
    ASSUME NEW call \in CallsOfDispatch
    PROVE  /\ PartsOf(call) \in Seq(Parts)
           /\ Len(PartsOf(call)) = Len(call.elements)
           /\ \A i \in 1..Len(call.elements) :
                  PartsOf(call)[i] = <<call.type, Element(call, i), call.job_data>>
<1> DEFINE n == Len(call.elements)
<1>1. n \in Nat /\ DOMAIN call.elements = 1..n
    BY DEF CallsOfDispatch
<1>2. ASSUME NEW i \in 1..n
      PROVE  <<call.type, Element(call, i), call.job_data>> \in Parts
    <2>1. Element(call, i) \in Components
        BY <1>1, ElementsAre
    <2>2. call.type \in DOMAIN BuiltIn /\ call.job_data \in Parameters
        BY DEF CallsOfDispatch
    <2> QED BY <2>1, <2>2, OpenPart
<1> DEFINE s == [i \in 1..n |-> <<call.type, Element(call, i), call.job_data>>]
<1>3. PartsOf(call) = s
    BY <1>1 DEF PartsOf
<1> HIDE DEF n
<1>4. s \in Seq(Parts) /\ Len(s) = n
    BY <1>1, <1>2
<1> QED BY <1>3, <1>4 DEF n

LEMMA UnfoldedWritten ==
    ASSUME NEW type \in DOMAIN BuiltIn, NEW c \in Components
    PROVE  Unfolded[<<type, c>>] = <<<<type, c>>>>
<1> DEFINE part == <<type, c>>
<1>1. part \in Parts /\ Len(part) = 2
    BY WrittenPart
<1> HIDE DEF part
<1>2. Unfolded[part] = <<part>>
    BY <1>1 DEF Unfolded
<1> QED BY <1>2 DEF part

LEMMA UnfoldedMacro ==
    ASSUME WellFormed, NEW type \in DOMAIN BuiltIn, NEW c \in Components, NEW d \in Parameters,
           c.name.lit \in DOMAIN macros[type]
    PROVE  LET macro == macros[type][c.name.lit]
               call == Calls(type, macro.elements, FullParams(macro, c, d), d, TRUE)
           IN  call \in CallsOfDispatch /\ Unfolded[<<type, c, d>>] = PartsOf(call)
<1> DEFINE name == c.name.lit
           macro == macros[type][name]
           params == FullParams(macro, c, d)
           call == Calls(type, macro.elements, params, d, TRUE)
           part == <<type, c, d>>
<1>1. macro.elements \in Seq(Components) /\ macro.params \in Parameters /\ global \in Parameters
    BY DEF WellFormed, IsMacro
<1>2. c.args \in Parameters
    BY ComponentsOfComponents
<1>3. params \in Parameters /\ params = Known(macro, c, d)
    BY <1>1, <1>2, AllParameters
<1>4. call \in CallsOfDispatch
    <2> HIDE DEF params, macro
    <2> QED BY <1>1, <1>3, CallsAre
<1>5. PartsOf(call) = [i \in DOMAIN macro.elements |-> <<type, Expand(macro.elements[i], params), d>>]
    BY DEF PartsOf, Calls, Element
<1>6. part \in Parts /\ Len(part) = 3 /\ part[1] = type /\ part[2] = c /\ part[3] = d
    BY OpenPart
<1>7. Unfolded[part] = OfMacro(type, c, d)
    <2> HIDE DEF part
    <2> QED BY <1>6 DEF Unfolded
<1>8. OfMacro(type, c, d) = [i \in DOMAIN macro.elements |-> <<type, Expand(macro.elements[i], params), d>>]
    BY <1>3 DEF OfMacro
<1>9. call \in CallsOfDispatch /\ Unfolded[part] = PartsOf(call)
    <2> HIDE DEF call, part, macro, params
    <2> QED BY <1>4, <1>5, <1>7, <1>8
<1> QED BY <1>9

LEMMA UnfoldedOther ==
    ASSUME WellFormed, NEW type \in DOMAIN BuiltIn, NEW c \in Components, NEW d \in Parameters,
           c.name.lit \notin DOMAIN macros[type]
    PROVE  LET call == Calls("builder", c.steps, << >>, << >>, FALSE)
           IN  call \in CallsOfDispatch /\ Unfolded[<<type, c, d>>] = <<<<type, c>>>> \o PartsOf(call)
<1> DEFINE call == Calls("builder", c.steps, << >>, << >>, FALSE)
           part == <<type, c, d>>
<1>1. c.steps \in Seq(Components) /\ << >> \in Parameters
    BY ComponentsOfComponents, NoParameters
<1>2. call \in CallsOfDispatch
    BY <1>1, TypesOfComponents, CallsAre
<1>3. PartsOf(call) = [i \in DOMAIN c.steps |-> <<"builder", c.steps[i], << >>>>]
    BY DEF PartsOf, Calls, Element
<1>4. part \in Parts /\ Len(part) = 3 /\ part[1] = type /\ part[2] = c
    BY OpenPart
<1>5. Unfolded[part] = OfOther(type, c)
    <2> HIDE DEF part
    <2> QED BY <1>4 DEF Unfolded
<1>6. OfOther(type, c) = <<<<type, c>>>> \o [i \in DOMAIN c.steps |-> <<"builder", c.steps[i], << >>>>]
    BY DEF OfOther
<1> QED BY <1>2, <1>3, <1>5, <1>6

LEMMA UnfoldedType ==
    ASSUME WellFormed
    PROVE  Unfolded \in [Parts -> Seq(Parts)]
<1>1. ASSUME NEW part \in Parts
      PROVE  Unfolded[part] \in Seq(Parts)
    <2>1. CASE part \in (DOMAIN BuiltIn) \X Components
        <3>1. PICK type \in DOMAIN BuiltIn : \E c \in Components : part = <<type, c>>
            BY <2>1
        <3>2. PICK c \in Components : part = <<type, c>>
            BY <3>1
        <3>3. Unfolded[part] = <<part>>
            BY <3>2, UnfoldedWritten
        <3> QED BY <3>3
    <2>2. CASE part \in (DOMAIN BuiltIn) \X Components \X Parameters
        <3>1. PICK type \in DOMAIN BuiltIn : \E c \in Components, d \in Parameters : part = <<type, c, d>>
            BY <2>2
        <3>2. PICK c \in Components, d \in Parameters : part = <<type, c, d>>
            BY <3>1
        <3>3. CASE c.name.lit \in DOMAIN macros[type]
            <4>1. \E call \in CallsOfDispatch : Unfolded[part] = PartsOf(call)
                BY <3>2, <3>3, UnfoldedMacro
            <4> QED BY <4>1, PartsAre
        <3>4. CASE c.name.lit \notin DOMAIN macros[type]
            <4>1. PICK call \in CallsOfDispatch : Unfolded[part] = <<<<type, c>>>> \o PartsOf(call)
                BY <3>2, <3>4, UnfoldedOther
            <4> DEFINE w == <<type, c>>
                       s == PartsOf(call)
            <4>2. w \in Parts /\ s \in Seq(Parts)
                BY WrittenPart, PartsAre
            <4> HIDE DEF w, s
            <4>3. <<w>> \o s \in Seq(Parts)
                BY <4>2
            <4> QED BY <4>1, <4>3 DEF w, s
        <3> QED BY <3>3, <3>4
    <2> QED BY <2>1, <2>2 DEF Parts
<1>2. Unfolded = [part \in Parts |-> Unfolded[part]]
    BY DEF Unfolded
<1> QED BY <1>1, <1>2

-----------------------------------------------------------------------------
(* What the calls of dispatch will still write, the innermost first: what  *)
(* is left of each list of elements, unfolded as often as there may be     *)
(* calls in it.                                                            *)
Owed(unfolded, calls) ==
    [e \in 1..Len(calls) |->
        Unfolding(unfolded, PartsOf(calls[Len(calls) + 1 - e]))[MaxDepth + e - Len(calls)]]

Owing(unfolded, calls) == FlattenSeq(Owed(unfolded, calls))

LEMMA OwingNone ==
    ASSUME NEW f
    PROVE  Owing(f, << >>) = << >>
<1> DEFINE none == << >>
<1>1. Len(none) = 0
    OBVIOUS
<1> HIDE DEF none
<1>2. Owed(f, none) = << >>
    BY <1>1 DEF Owed
<1>3. Owing(f, none) = << >>
    BY <1>2, FlattenNone DEF Owing
<1> QED BY <1>3 DEF none

LEMMA OwedLists ==
    ASSUME NEW f \in [Parts -> Seq(Parts)], NEW calls \in Seq(CallsOfDispatch),
           Len(calls) <= MaxDepth + 1
    PROVE  /\ Owed(f, calls) \in Seq(Seq(Parts))
           /\ Owing(f, calls) \in Seq(Parts)
<1> DEFINE n == Len(calls)
           V == Seq(Parts)
           s == Owed(f, calls)
<1>1. n \in Nat /\ MaxDepth \in Nat /\ n <= MaxDepth + 1
    BY DepthIsANumber
<1>2. ASSUME NEW e \in 1..n
      PROVE  Unfolding(f, PartsOf(calls[n + 1 - e]))[MaxDepth + e - n] \in V
    <2>1. n + 1 - e \in 1..n /\ MaxDepth + e - n \in 0..MaxDepth
        BY <1>1
    <2> DEFINE c == calls[n + 1 - e]
    <2>2. c \in CallsOfDispatch
        BY <2>1
    <2> HIDE DEF c
    <2>3. PartsOf(c) \in Seq(Parts)
        BY <2>2, PartsAre
    <2>4. Unfolding(f, PartsOf(c)) \in [0..MaxDepth -> V]
        BY <2>3, UnfoldingSteps DEF IsUnfolding
    <2> HIDE DEF V, n
    <2> QED BY <2>1, <2>4 DEF c
<1>3. s \in Seq(V)
    <2> HIDE DEF V
    <2> QED BY <1>1, <1>2 DEF Owed
<1>4. s \in Seq(Seq(Parts))
    BY <1>3
<1> HIDE DEF s
<1>5. FlattenSeq(s) \in Seq(Parts)
    BY <1>4, FlattenType
<1> QED BY <1>4, <1>5 DEF s, Owing

(* One call more owes what is in it, before what the others owe.           *)
LEMMA OwingMore ==
    ASSUME NEW f \in [Parts -> Seq(Parts)], NEW calls \in Seq(CallsOfDispatch),
           Len(calls) <= MaxDepth, NEW c \in CallsOfDispatch
    PROVE  /\ Unfolding(f, PartsOf(c))[MaxDepth - Len(calls)] \in Seq(Parts)
           /\ Owing(f, Append(calls, c))
                  = Unfolding(f, PartsOf(c))[MaxDepth - Len(calls)] \o Owing(f, calls)
<1> DEFINE n == Len(calls)
           x == Unfolding(f, PartsOf(c))[MaxDepth - n]
           more == Append(calls, c)
           s == Owed(f, calls)
           t == Owed(f, more)
           V == Seq(Parts)
<1>1. n \in Nat /\ MaxDepth \in Nat /\ n <= MaxDepth
    BY DepthIsANumber
<1>2. /\ Len(more) = n + 1 /\ more[n + 1] = c
      /\ \A i \in 1..n : more[i] = calls[i]
    OBVIOUS
<1>3. x \in V
    <2>1. PartsOf(c) \in Seq(Parts)
        BY PartsAre
    <2>2. Unfolding(f, PartsOf(c)) \in [0..MaxDepth -> V]
        BY <2>1, UnfoldingSteps DEF IsUnfolding
    <2>3. MaxDepth - n \in 0..MaxDepth
        BY <1>1
    <2> HIDE DEF V, n
    <2> QED BY <2>2, <2>3
<1>4. s \in Seq(V)
    BY <1>1, OwedLists
<1>5. Len(s) = n /\ \A e \in 1..n : s[e] = Unfolding(f, PartsOf(calls[n + 1 - e]))[MaxDepth + e - n]
    BY DEF Owed
<1> HIDE DEF more
<1>6. /\ DOMAIN t = 1..(n + 1)
      /\ \A e \in 1..(n + 1) :
             t[e] = Unfolding(f, PartsOf(more[(n + 1) + 1 - e]))[MaxDepth + e - (n + 1)]
    <2> HIDE DEF n
    <2> QED BY <1>2 DEF Owed
<1>7. t[1] = x
    <2>1. 1 \in 1..(n + 1) /\ (n + 1) + 1 - 1 = n + 1 /\ MaxDepth + 1 - (n + 1) = MaxDepth - n
        BY <1>1
    <2> HIDE DEF t, n
    <2> QED BY <1>2, <1>6, <2>1 DEF n
<1>8. ASSUME NEW e \in 2..(n + 1)
      PROVE  t[e] = s[e - 1]
    <2>1. /\ e \in 1..(n + 1) /\ e - 1 \in 1..n
          /\ (n + 1) + 1 - e = n + 1 - (e - 1) /\ n + 1 - (e - 1) \in 1..n
          /\ MaxDepth + e - (n + 1) = MaxDepth + (e - 1) - n
        BY <1>1
    <2> HIDE DEF t, s, n
    <2>2. t[e] = Unfolding(f, PartsOf(more[n + 1 - (e - 1)]))[MaxDepth + (e - 1) - n]
        BY <1>6, <2>1
    <2>3. more[n + 1 - (e - 1)] = calls[n + 1 - (e - 1)]
        BY <1>2, <2>1
    <2> QED BY <1>5, <2>1, <2>2, <2>3
<1>9. t = <<x>> \o s
    <2>1. t = [e \in 1..(n + 1) |-> t[e]]
        <3>1. t = [e \in DOMAIN t |-> t[e]]
            BY DEF Owed
        <3> HIDE DEF t
        <3> QED BY <1>6, <3>1
    <2> HIDE DEF t, s, x, n, V
    <2>2. <<x>> \in Seq(V) /\ Len(<<x>>) = 1 /\ <<x>>[1] = x
        BY <1>3
    <2>3. /\ <<x>> \o s \in Seq(V) /\ Len(<<x>> \o s) = 1 + n
          /\ \A e \in 1..(1 + n) : (<<x>> \o s)[e] = IF e <= 1 THEN <<x>>[e] ELSE s[e - 1]
        BY <1>4, <1>5, <2>2, ConcatProperties
    <2> DEFINE r == <<x>> \o s
    <2>4. /\ r \in Seq(V) /\ Len(r) = n + 1
          /\ r[1] = x
          /\ \A e \in 2..(n + 1) : r[e] = s[e - 1]
        <3>1. \A e \in 2..(n + 1) : e \in 1..(1 + n) /\ ~(e <= 1)
            BY <1>1 DEF n
        <3>2. 1 \in 1..(1 + n) /\ 1 + n = n + 1
            BY <1>1 DEF n
        <3> QED BY <2>2, <2>3, <3>1, <3>2
    <2> HIDE DEF r
    <2>5. r = [e \in 1..(n + 1) |-> r[e]]
        BY <2>4
    <2>6. \A e \in 1..(n + 1) : e = 1 \/ e \in 2..(n + 1)
        BY <1>1 DEF n
    <2>7. \A e \in 1..(n + 1) : t[e] = r[e]
        BY <1>7, <1>8, <2>4, <2>6
    <2>8. t = r
        BY <2>1, <2>5, <2>7
    <2> QED BY <2>8 DEF r
<1>10. FlattenSeq(<<x>> \o s) = x \o FlattenSeq(s)
    <2>1. x \in Seq(Parts) /\ s \in Seq(Seq(Parts))
        BY <1>3, <1>4
    <2> DEFINE one == <<x>>
    <2> HIDE DEF x, s
    <2>2. FlattenSeq(one) = x
        BY <2>1, FlattenOne
    <2>3. one \in Seq(Seq(Parts))
        BY <2>1
    <2> HIDE DEF one
    <2>4. FlattenSeq(one \o s) = FlattenSeq(one) \o FlattenSeq(s)
        BY <2>1, <2>3, FlattenConcat
    <2> QED BY <2>2, <2>4 DEF one
<1> QED BY <1>3, <1>9, <1>10 DEF Owing, more

(* The parts of the first element of the innermost list, and of the rest.  *)
LEMMA TopOwes ==
    ASSUME NEW f \in [Parts -> Seq(Parts)], stack \in Seq(CallsOfDispatch), stack # << >>,
           Len(stack) <= MaxDepth + 1
    PROVE  /\ Top \in CallsOfDispatch
           /\ Below \in Seq(CallsOfDispatch) /\ Len(Below) = Len(stack) - 1
           /\ Unfolding(f, PartsOf(Top))[MaxDepth + 1 - Len(stack)] \in Seq(Parts)
           /\ Owing(f, stack)
                  = Unfolding(f, PartsOf(Top))[MaxDepth + 1 - Len(stack)] \o Owing(f, Below)
<1> DEFINE n == Len(stack)
           b == Below
           t == Top
<1>1. n \in Nat /\ n # 0 /\ MaxDepth \in Nat /\ n <= MaxDepth + 1
    BY DepthIsANumber
<1>2. t \in CallsOfDispatch
    BY <1>1 DEF Top
<1>3. b \in Seq(CallsOfDispatch) /\ Len(b) = n - 1 /\ \A i \in 1..(n - 1) : b[i] = stack[i]
    <2>1. n - 1 \in Nat /\ \A i \in 1..(n - 1) : stack[i] \in CallsOfDispatch
        BY <1>1
    <2>2. b = [i \in 1..(n - 1) |-> stack[i]]
        BY <1>1 DEF Below, Front
    <2> HIDE DEF b, n
    <2> QED BY <2>1, <2>2
<1>4. stack = Append(b, t)
    BY <1>1 DEF Below, Front, Top
<1> HIDE DEF b, t
<1>5. Len(b) <= MaxDepth /\ MaxDepth - Len(b) = MaxDepth + 1 - n
    BY <1>1, <1>3
<1>6. /\ Unfolding(f, PartsOf(t))[MaxDepth - Len(b)] \in Seq(Parts)
      /\ Owing(f, Append(b, t)) = Unfolding(f, PartsOf(t))[MaxDepth - Len(b)] \o Owing(f, b)
    BY <1>2, <1>3, <1>5, OwingMore
<1> QED BY <1>2, <1>3, <1>4, <1>5, <1>6 DEF b, t

First == <<Top.type, Element(Top, 1), Top.job_data>>

LEMMA RestOwes ==
    ASSUME Top \in CallsOfDispatch, Top.elements # << >>
    PROVE  /\ Rest \in CallsOfDispatch
           /\ First \in Parts
           /\ PartsOf(Top) = <<First>> \o PartsOf(Rest)
<1> DEFINE t == Top
           r == Rest
           n == Len(t.elements)
<1>1. t \in CallsOfDispatch /\ t.elements \in Seq(Components) /\ n \in Nat \ {0}
    BY DEF CallsOfDispatch
<1>2. r = [t EXCEPT !.elements = Tail(@)]
    BY DEF Rest
<1> HIDE DEF t, r
<1>3. /\ r \in CallsOfDispatch /\ r.elements = Tail(t.elements)
      /\ r.type = t.type /\ r.job_data = t.job_data /\ r.params = t.params /\ r.of_macro = t.of_macro
    <2>1. Tail(t.elements) \in Seq(Components)
        BY <1>1
    <2> QED BY <1>1, <1>2, <2>1 DEF CallsOfDispatch
<1>4. Len(r.elements) = n - 1 /\ \A i \in 1..(n - 1) : r.elements[i] = t.elements[i + 1]
    BY <1>1, <1>3
<1>5. \A i \in 1..(n - 1) : Element(r, i) = Element(t, i + 1)
    BY <1>3, <1>4 DEF Element
<1> DEFINE x == <<t.type, Element(t, 1), t.job_data>>
           s == PartsOf(t)
           u == PartsOf(r)
<1>6. /\ s \in Seq(Parts) /\ Len(s) = n
      /\ \A i \in 1..n : s[i] = <<t.type, Element(t, i), t.job_data>>
    BY <1>1, PartsAre
<1>7. /\ u \in Seq(Parts) /\ Len(u) = n - 1
      /\ \A i \in 1..(n - 1) : u[i] = <<r.type, Element(r, i), r.job_data>>
    BY <1>3, <1>4, PartsAre
<1>8. s[1] = x /\ x \in Parts
    <2>1. 1 \in 1..n
        BY <1>1
    <2> HIDE DEF s, n
    <2>2. s[1] = x
        BY <1>6, <2>1
    <2>3. s[1] \in Parts
        BY <1>6, <2>1
    <2> QED BY <2>2, <2>3
<1>9. \A i \in 1..(n - 1) : u[i] = s[i + 1]
    <2>1. \A i \in 1..(n - 1) : i + 1 \in 1..n
        BY <1>1
    <2> HIDE DEF s, u, n
    <2> QED BY <1>3, <1>5, <1>6, <1>7, <2>1
<1> HIDE DEF s, u, x, n
<1>10. s = <<x>> \o u
    <2> DEFINE w == <<x>> \o u
    <2>2. /\ w \in Seq(Parts) /\ Len(w) = Len(u) + 1
          /\ w[1] = x /\ \A i \in 1..Len(u) : w[i + 1] = u[i]
        BY <1>7, <1>8, Prepended
    <2>3. n \in Nat /\ Len(u) + 1 = n /\ n # 0
        BY <1>1, <1>7 DEF n
    <2> HIDE DEF w
    <2>4. ASSUME NEW i \in 1..n
          PROVE  w[i] = s[i]
        <3>1. CASE i = 1
            BY <1>8, <2>2, <3>1
        <3>2. CASE i # 1
            <4>1. i - 1 \in 1..(n - 1) /\ i - 1 \in 1..Len(u) /\ (i - 1) + 1 = i
                BY <1>7, <2>3, <3>2
            <4>2. w[(i - 1) + 1] = u[i - 1]
                BY <2>2, <4>1
            <4> QED BY <1>9, <4>1, <4>2
        <3> QED BY <3>1, <3>2
    <2>5. w = [i \in 1..n |-> w[i]] /\ s = [i \in 1..n |-> s[i]]
        BY <1>6, <2>2, <2>3
    <2>6. s = w
        BY <2>4, <2>5
    <2> QED BY <2>6 DEF w
<1>11. First = x
    BY DEF First, x, t
<1> QED BY <1>3, <1>8, <1>10, <1>11 DEF s, u, t, r

FirstThenRest(X, f, x, u, o, k) ==
    /\ Unfolding(f, f[x])[k - 1] \in Seq(X)
    /\ Unfolding(f, <<x>> \o u)[k] \o o = Unfolding(f, f[x])[k - 1] \o (Unfolding(f, u)[k] \o o)

LEMMA FirstUnfolds ==
    ASSUME NEW X, NEW f \in [X -> Seq(X)], NEW x \in X, NEW u \in Seq(X), NEW o \in Seq(X),
           NEW k \in 1..MaxDepth
    PROVE  FirstThenRest(X, f, x, u, o, k)
<1> DEFINE one == <<x>>
           p == f[x]
           y == Unfolding(f, p)[k - 1]
           z == Unfolding(f, u)[k]
           V == Seq(X)
<1>1. MaxDepth \in Nat /\ k \in 0..MaxDepth /\ k - 1 \in 0..MaxDepth
    BY DepthIsANumber
<1>2. one \in Seq(X) /\ p \in Seq(X) /\ UnfoldAll(f, one) = p
    <2>1. UnfoldAll(f, one) = p
        BY UnfoldOne
    <2>2. one \in Seq(X) /\ p \in Seq(X)
        OBVIOUS
    <2> QED BY <2>1, <2>2
<1> HIDE DEF one, p
<1>3. Unfolding(f, one)[k] = y
    BY <1>2, UnfoldingLater
<1>4. Unfolding(f, one \o u)[k] = Unfolding(f, one)[k] \o z
    <2>1. one \in Seq(X)
        BY <1>2
    <2>2. SideBySide(f, one, u)
        BY <2>1, UnfoldingConcat
    <2> QED BY <1>1, <2>2 DEF SideBySide
<1>5. y \in V
    <2>1. Unfolding(f, p) \in [0..MaxDepth -> V]
        BY <1>2, UnfoldingSteps DEF IsUnfolding
    <2> HIDE DEF V
    <2> QED BY <1>1, <2>1
<1>6. z \in V
    <2>1. Unfolding(f, u) \in [0..MaxDepth -> V]
        BY UnfoldingSteps DEF IsUnfolding
    <2> HIDE DEF V
    <2> QED BY <1>1, <2>1
<1>7. o \in V
    OBVIOUS
<1> HIDE DEF y, z
<1>8. (y \o z) \o o = y \o (z \o o)
    <2>1. Chained(y, z, o)
        BY <1>5, <1>6, <1>7, Chain
    <2> QED BY <2>1 DEF Chained
<1> QED BY <1>3, <1>4, <1>5, <1>8 DEF one, p, y, z, FirstThenRest

(* The first element has one call less to unfold in when it is dispatched. *)
LEMMA DispatchOwes ==
    ASSUME NEW f \in [Parts -> Seq(Parts)], stack \in Seq(CallsOfDispatch), stack # << >>,
           Len(stack) <= MaxDepth, Top.elements # << >>
    PROVE  LET left == Append(Below, Rest)
           IN  /\ left \in Seq(CallsOfDispatch) /\ Len(left) = Len(stack)
               /\ Unfolding(f, f[First])[MaxDepth - Len(stack)] \in Seq(Parts)
               /\ Owing(f, stack)
                      = Unfolding(f, f[First])[MaxDepth - Len(stack)] \o Owing(f, left)
<1> DEFINE n == Len(stack)
           K == MaxDepth + 1 - n
           b == Below
           x == First
           u == PartsOf(Rest)
           left == Append(Below, Rest)
<1>1. n \in Nat /\ n # 0 /\ MaxDepth \in Nat /\ n <= MaxDepth
    BY DepthIsANumber
<1>2. /\ Top \in CallsOfDispatch /\ b \in Seq(CallsOfDispatch) /\ Len(b) = n - 1
      /\ Owing(f, stack) = Unfolding(f, PartsOf(Top))[K] \o Owing(f, b)
    <2>1. Len(stack) <= MaxDepth + 1
        BY <1>1
    <2> QED BY <2>1, TopOwes
<1>3. Rest \in CallsOfDispatch /\ x \in Parts /\ PartsOf(Top) = <<x>> \o u
    BY <1>2, RestOwes
<1>4. left \in Seq(CallsOfDispatch) /\ Len(left) = n
    <2> HIDE DEF n
    <2> QED BY <1>1, <1>2, <1>3
<1>5. Unfolding(f, u)[K] \in Seq(Parts) /\ Owing(f, left) = Unfolding(f, u)[K] \o Owing(f, b)
    <2>1. Len(b) <= MaxDepth /\ MaxDepth - Len(b) = K
        BY <1>1, <1>2
    <2> HIDE DEF b, K
    <2>2. /\ Unfolding(f, PartsOf(Rest))[MaxDepth - Len(b)] \in Seq(Parts)
          /\ Owing(f, Append(b, Rest)) = Unfolding(f, PartsOf(Rest))[MaxDepth - Len(b)] \o Owing(f, b)
        BY <1>2, <1>3, <2>1, OwingMore
    <2> QED BY <2>1, <2>2 DEF b
<1>6. u \in Seq(Parts)
    BY <1>3, PartsAre
<1>7. K \in 1..MaxDepth /\ K \in 0..MaxDepth /\ K - 1 = MaxDepth - n /\ K - 1 \in 0..MaxDepth
    BY <1>1
<1> DEFINE o == Owing(f, b)
<1>8. o \in Seq(Parts)
    <2>1. Len(b) <= MaxDepth + 1
        BY <1>1, <1>2
    <2> QED BY <1>2, <2>1, OwedLists
<1> HIDE DEF x, u, b, K, n, left, o
<1>9. /\ Unfolding(f, f[x])[K - 1] \in Seq(Parts)
      /\ Unfolding(f, <<x>> \o u)[K] \o o = Unfolding(f, f[x])[K - 1] \o (Unfolding(f, u)[K] \o o)
    <2>1. FirstThenRest(Parts, f, x, u, o, K)
        BY <1>3, <1>6, <1>7, <1>8, FirstUnfolds
    <2> QED BY <2>1 DEF FirstThenRest
<1>10. Owing(f, stack) = Unfolding(f, f[x])[K - 1] \o Owing(f, left)
    BY <1>2, <1>3, <1>5, <1>9 DEF o
<1> QED BY <1>4, <1>7, <1>9, <1>10 DEF n, x, left

-----------------------------------------------------------------------------
(* What the lists of a job stand for, one after the other.                 *)
UpTo(j, k) == FlattenSeq([n \in 1..k |-> Meaning(j, n)])

ListsTyped == \A id \in DOMAIN lists : lists[id] \in Seq(Components)

LEMMA CallsOfListAre ==
    ASSUME WellFormed, ListsTyped, NEW j \in DOMAIN jobs, NEW n \in DOMAIN jobs[j].lists,
           jobs[j].lists[n].id \in DOMAIN lists
    PROVE  CallsOfList(jobs[j].lists[n], lists[jobs[j].lists[n].id], jobs[j].data) \in CallsOfDispatch
<1> DEFINE list == jobs[j].lists[n]
           e == lists[list.id]
           d == IF list.type = "property" THEN jobs[j].data ELSE << >>
<1>1. list.type \in DOMAIN BuiltIn
    BY DEF WellFormed
<1>2. e \in Seq(Components)
    BY DEF ListsTyped
<1>3. d \in Parameters /\ << >> \in Parameters
    BY NoParameters DEF WellFormed
<1>4. CallsOfList(list, e, jobs[j].data) = Calls(list.type, e, << >>, d, FALSE)
    BY DEF CallsOfList
<1> HIDE DEF list, e, d
<1>5. Calls(list.type, e, << >>, d, FALSE) \in CallsOfDispatch
    BY <1>1, <1>2, <1>3, CallsAre
<1> QED BY <1>4, <1>5 DEF list, e

LEMMA UnfoldingTyped ==
    ASSUME NEW f \in [Parts -> Seq(Parts)], NEW call \in CallsOfDispatch, NEW k \in 0..MaxDepth
    PROVE  Unfolding(f, PartsOf(call))[k] \in Seq(Parts)
<1> DEFINE p == PartsOf(call)
           V == Seq(Parts)
<1>1. p \in Seq(Parts)
    BY PartsAre
<1> HIDE DEF p
<1>2. Unfolding(f, p) \in [0..MaxDepth -> V]
    BY <1>1, UnfoldingSteps DEF IsUnfolding
<1>3. Unfolding(f, p)[k] \in V
    <2> HIDE DEF V
    <2> QED BY <1>2
<1> QED BY <1>3 DEF p

LEMMA MeaningType ==
    ASSUME WellFormed, ListsTyped, NEW j \in DOMAIN jobs, NEW n \in DOMAIN jobs[j].lists
    PROVE  Meaning(j, n) \in Seq(Parts)
<1> DEFINE list == jobs[j].lists[n]
           call == CallsOfList(list, lists[list.id], jobs[j].data)
<1>1. Unfolded \in [Parts -> Seq(Parts)] /\ MaxDepth \in 0..MaxDepth
    BY UnfoldedType, DepthIsANumber
<1>2. CASE list.id \notin DOMAIN lists
    <2>1. Meaning(j, n) = << >>
        BY <1>2 DEF Meaning
    <2> QED BY <2>1
<1>3. CASE list.id \in DOMAIN lists
    <2>1. call \in CallsOfDispatch
        BY <1>3, CallsOfListAre
    <2>2. Meaning(j, n) = Unfolding(Unfolded, PartsOf(call))[MaxDepth]
        BY <1>3 DEF Meaning
    <2> HIDE DEF call
    <2>3. Unfolding(Unfolded, PartsOf(call))[MaxDepth] \in Seq(Parts)
        BY <1>1, <2>1, UnfoldingTyped
    <2> QED BY <2>2, <2>3
<1> QED BY <1>2, <1>3

LEMMA UpToSteps ==
    ASSUME WellFormed, ListsTyped, NEW j \in DOMAIN jobs
    PROVE  /\ UpTo(j, 0) = << >>
           /\ \A k \in Nat : k + 1 \in DOMAIN jobs[j].lists =>
                  UpTo(j, k + 1) = UpTo(j, k) \o Meaning(j, k + 1)
<1>1. UpTo(j, 0) = << >>
    <2>1. [n \in 1..0 |-> Meaning(j, n)] = << >>
        OBVIOUS
    <2> QED BY <2>1, FlattenNone DEF UpTo
<1>2. ASSUME NEW k \in Nat, k + 1 \in DOMAIN jobs[j].lists
      PROVE  UpTo(j, k + 1) = UpTo(j, k) \o Meaning(j, k + 1)
    <2> DEFINE m == [n \in 1..(k + 1) |-> Meaning(j, n)]
    <2>1. \A n \in 1..(k + 1) : n \in DOMAIN jobs[j].lists
        BY <1>2, Lists DEF WellFormed
    <2>2. \A n \in 1..(k + 1) : m[n] \in Seq(Parts)
        BY <2>1, MeaningType
    <2>3. /\ [n \in 1..(k + 1) |-> Meaning(j, n)] = [n \in 1..(k + 1) |-> m[n]]
          /\ [n \in 1..k |-> Meaning(j, n)] = [n \in 1..k |-> m[n]]
          /\ m[k + 1] = Meaning(j, k + 1)
        OBVIOUS
    <2> HIDE DEF m
    <2>4. FlattenSeq([n \in 1..(k + 1) |-> m[n]]) = FlattenSeq([n \in 1..k |-> m[n]]) \o m[k + 1]
        BY <2>2, FlattenMore
    <2> QED BY <2>3, <2>4 DEF UpTo
<1> QED BY <1>1, <1>2

(* It does not change while what it is told from does not.                 *)
LEMMA UnfoldedStays ==
    ASSUME UNCHANGED <<macros, global>>
    PROVE  Unfolded' = Unfolded
<1>1. \A t, c, d : OfMacro(t, c, d)' = OfMacro(t, c, d)
    BY DEF OfMacro, Known
<1>2. \A t, c : OfOther(t, c)' = OfOther(t, c)
    BY DEF OfOther
<1> QED BY <1>1, <1>2 DEF Unfolded

LEMMA UpToStays ==
    ASSUME UNCHANGED <<macros, global, lists, jobs>>
    PROVE  \A j, k : UpTo(j, k)' = UpTo(j, k)
<1>1. Unfolded' = Unfolded
    BY UnfoldedStays
<1>2. \A j, n : Meaning(j, n)' = Meaning(j, n)
    BY <1>1 DEF Meaning
<1> QED BY <1>2 DEF UpTo

-----------------------------------------------------------------------------
(* The lists of components, also after Zuul has changed them.              *)
LEMMA AddedTyped ==
    ASSUME NEW list
    PROVE  Added(list) \in Seq(Components)
<1> DEFINE V == Seq(Components)
           n == Len(ZuulTriggers)
           s == [i \in DOMAIN ZuulTriggers |->
                    IF Contains(list, ZuulTriggers[i].trigger) THEN ZuulTriggers[i].parameters
                    ELSE << >>]
<1>1. n \in Nat /\ DOMAIN ZuulTriggers = 1..n
    BY TriggersOfZuul, Lists
<1>2. ASSUME NEW i \in 1..n
      PROVE  ZuulTriggers[i].parameters \in V
    <2> DEFINE p == ZuulTriggers[i].parameters
    <2>1. IsList(p) /\ ToSet(p) \subseteq Components
        BY <1>1, TriggersOfZuul, ComponentsOfComponents
    <2> HIDE DEF p
    <2>2. p \in Seq(ToSet(p))
        BY <2>1 DEF IsList
    <2>3. p \in Seq(Components)
        BY <2>1, <2>2, SeqMonotonic
    <2> QED BY <2>3 DEF p
<1>3. << >> \in V
    OBVIOUS
<1>4. s \in Seq(V)
    <2> HIDE DEF V, n
    <2> QED BY <1>1, <1>2, <1>3
<1>5. s \in Seq(Seq(Components))
    BY <1>4
<1> HIDE DEF s
<1>6. FlattenSeq(s) \in Seq(Components)
    BY <1>5, FlattenType
<1> QED BY <1>6 DEF s, Added

LEMMA WithoutZuulTyped ==
    ASSUME NEW X, NEW list \in Seq(X)
    PROVE  WithoutZuul(list) \in Seq(X)
<1>1. PICK acc \in [0..Len(ZuulTriggers) -> Seq(X)] : WithoutZuul(list) = acc[Len(ZuulTriggers)]
    BY WithoutZuulSteps
<1>2. Len(ZuulTriggers) \in 0..Len(ZuulTriggers)
    BY TriggersOfZuul, Lists
<1> DEFINE V == Seq(X)
           k == Len(ZuulTriggers)
<1>3. acc \in [0..k -> V] /\ k \in 0..k
    BY <1>2
<1> HIDE DEF V, k
<1>4. acc[k] \in V
    BY <1>3
<1> QED BY <1>1, <1>4 DEF V, k

LEMMA ZuulTyped ==
    ASSUME ListsTyped, NEW job, HasZuul(job), Zuul(job)
    PROVE  ListsTyped'
<1> DEFINE V == Seq(Components)
           p == ListOf(lists, job.parameters)
           a == Added(lists[job.triggers])
<1>1. \A id \in DOMAIN lists : lists[id] \in V /\ WithoutZuul(lists[id]) \in V
    BY WithoutZuulTyped DEF ListsTyped
<1>2. job.triggers \in DOMAIN lists
    BY DEF HasZuul
<1>3. p \in Seq(Components)
    BY DEF ListOf, ListsTyped
<1>4. a \in Seq(Components)
    BY AddedTyped
<1>5. p \o a \in V
    <2> HIDE DEF p, a
    <2> QED BY <1>3, <1>4
<1>6. lists' = [id \in {job.parameters, job.triggers} \cup DOMAIN lists |->
                   IF id = job.parameters THEN p \o a
                   ELSE IF id = job.triggers THEN WithoutZuul(lists[id])
                   ELSE lists[id]]
    BY DEF Zuul
<1> HIDE DEF V, p, a
<1>7. \A id \in DOMAIN lists' : lists'[id] \in V
    BY <1>1, <1>2, <1>5, <1>6
<1> QED BY <1>7 DEF ListsTyped, V

-----------------------------------------------------------------------------
(* What is written and what the calls of dispatch still owe is together    *)
(* what the lists started so far stand for.                                *)
NothingYet == \A j \in DOMAIN jobs : outcome = "amending" \/ j > at => xml[j] = << >>

JobsDone ==
    outcome \in {"dispatching", "generated"} =>
        \A j \in DOMAIN jobs : j < at => xml[j] = UpTo(j, Len(jobs[j].lists))

JobAtHand ==
    outcome = "dispatching" /\ at \in DOMAIN jobs =>
        xml[at] \o Owing(Unfolded, stack) = UpTo(at, section)

WritingInv ==
    /\ ListsTyped
    /\ stack \in Seq(CallsOfDispatch)
    /\ stack # << >> => at \in DOMAIN jobs
    /\ \A j \in DOMAIN jobs : xml[j] \in Seq(Parts)
    /\ NothingYet
    /\ JobsDone
    /\ JobAtHand
    /\ outcome = "generated" => at > Len(jobs)

LEMMA InitWriting == WellFormed /\ Init => WritingInv
<1> SUFFICES ASSUME WellFormed, Init
             PROVE  WritingInv
    OBVIOUS
<1>1. ListsTyped
    BY DEF ListsTyped, Init, WellFormed
<1>2. \A j \in DOMAIN jobs : xml[j] = << >> /\ xml[j] \in Seq(Parts)
    <2>1. << >> \in Seq(Parts)
        OBVIOUS
    <2>2. \A j \in DOMAIN jobs : xml[j] = << >>
        BY DEF Init
    <2> QED BY <2>1, <2>2
<1>3. stack = << >> /\ stack \in Seq(CallsOfDispatch)
    <2>1. << >> \in Seq(CallsOfDispatch)
        OBVIOUS
    <2> QED BY <2>1 DEF Init
<1>4. outcome = "amending"
    BY DEF Init
<1>5. NothingYet /\ JobsDone /\ JobAtHand
    BY <1>2, <1>4 DEF NothingYet, JobsDone, JobAtHand
<1> QED BY <1>1, <1>2, <1>3, <1>4, <1>5 DEF WritingInv

LEMMA AmendJobWrites ==
    ASSUME Inv, WritingInv, AmendJob
    PROVE  WritingInv'
<1>1. /\ outcome = "amending" /\ outcome' = "amending"
      /\ UNCHANGED <<macros, global, jobs, section, stack, xml>>
    BY DEF AmendJob
<1>2. ListsTyped'
    <2>1. CASE HasZuul(jobs[at])
        BY <2>1, ZuulTyped DEF AmendJob, WritingInv
    <2>2. CASE ~HasZuul(jobs[at])
        BY <2>2 DEF AmendJob, WritingInv, ListsTyped
    <2> QED BY <2>1, <2>2
<1>3. stack = << >>
    BY <1>1 DEF Inv, TypeOK
<1>4. /\ stack' = << >> /\ stack' \in Seq(CallsOfDispatch)
      /\ \A j \in DOMAIN jobs' : xml'[j] = << >> /\ xml'[j] \in Seq(Parts)'
    BY <1>1, <1>3 DEF WritingInv, NothingYet, Parts, Parameters
<1>5. (NothingYet /\ JobsDone /\ JobAtHand)'
    BY <1>1, <1>4 DEF NothingYet, JobsDone, JobAtHand
<1> QED BY <1>1, <1>2, <1>4, <1>5 DEF WritingInv, CallsOfDispatch, Parameters

LEMMA EndPassWrites ==
    ASSUME Inv, WritingInv, EndPass
    PROVE  WritingInv'
<1>1. /\ outcome = "amending" /\ at' = 1
      /\ UNCHANGED <<macros, global, lists, jobs, section, stack, xml>>
    BY DEF EndPass
<1>2. stack = << >> /\ section = 0 /\ outcome' \in {"amending", "dispatching"}
    <2>1. stack = << >> /\ section = 0
        BY <1>1 DEF Inv, TypeOK
    <2>2. outcome' \in {"amending", "dispatching"}
        BY DEF EndPass
    <2> QED BY <2>1, <2>2
<1>3. \A j \in DOMAIN jobs : xml[j] = << >> /\ xml[j] \in Seq(Parts)
    BY <1>1 DEF WritingInv, NothingYet
<1>4. NothingYet' /\ JobsDone'
    <2>1. DOMAIN jobs = 1..Len(jobs) /\ Len(jobs) \in Nat
        BY Lists DEF Inv, WellFormed
    <2>2. \A j \in DOMAIN jobs' : ~(j < at')
        BY <1>1, <2>1
    <2> QED BY <1>1, <1>3, <2>2 DEF NothingYet, JobsDone
<1>5. JobAtHand'
    <2>1. Owing(Unfolded', << >>) = << >>
        BY OwingNone
    <2>2. << >> \o << >> = << >>
        OBVIOUS
    <2>3. ASSUME 1 \in DOMAIN jobs
          PROVE  UpTo(1, 0)' = << >> /\ xml[1] = << >>
        <3>1. UpTo(1, 0) = << >>
            BY <2>3, UpToSteps DEF Inv, WritingInv
        <3>2. UpTo(1, 0)' = UpTo(1, 0)
            BY <1>1, UpToStays
        <3> QED BY <1>3, <2>3, <3>1, <3>2
    <2>4. \A j : j = 1 => UpTo(j, 0)' = UpTo(1, 0)'
        OBVIOUS
    <2> QED BY <1>1, <1>2, <2>1, <2>2, <2>3, <2>4 DEF JobAtHand
<1> QED BY <1>1, <1>2, <1>3, <1>4, <1>5 DEF WritingInv, ListsTyped, CallsOfDispatch, Parts, Parameters

(* The first call for a list owes what the list stands for.                *)
LEMMA OneCallOwes ==
    ASSUME NEW f \in [Parts -> Seq(Parts)], NEW call \in CallsOfDispatch
    PROVE  Owing(f, <<call>>) = Unfolding(f, PartsOf(call))[MaxDepth]
<1> DEFINE none == << >>
           x == Unfolding(f, PartsOf(call))[MaxDepth]
<1>1. none \in Seq(CallsOfDispatch) /\ Len(none) = 0 /\ Append(none, call) = <<call>>
    OBVIOUS
<1>2. MaxDepth \in Nat /\ 0 <= MaxDepth /\ MaxDepth - 0 = MaxDepth
    BY DepthIsANumber
<1>3. Owing(f, none) = << >>
    BY OwingNone
<1> HIDE DEF none
<1>4. /\ Unfolding(f, PartsOf(call))[MaxDepth - Len(none)] \in Seq(Parts)
      /\ Owing(f, Append(none, call))
             = Unfolding(f, PartsOf(call))[MaxDepth - Len(none)] \o Owing(f, none)
    BY <1>1, <1>2, OwingMore
<1>5. x \in Seq(Parts) /\ Owing(f, <<call>>) = x \o << >>
    BY <1>1, <1>2, <1>3, <1>4
<1> HIDE DEF x
<1>6. x \o << >> = x
    BY <1>5, ConcatEmptySeq
<1> QED BY <1>5, <1>6 DEF x

LEMMA StartListWrites ==
    ASSUME Inv, WritingInv, StartList
    PROVE  WritingInv'
<1> DEFINE list == jobs[at].lists[section + 1]
           call == CallsOfList(list, lists[list.id], jobs[at].data)
<1>1. /\ outcome = "dispatching" /\ outcome' = "dispatching"
      /\ stack = << >> /\ at <= Len(jobs)
      /\ UNCHANGED <<macros, global, lists, jobs, xml>>
    BY DEF StartList
<1>2. /\ Len(jobs) \in Nat /\ DOMAIN jobs = 1..Len(jobs)
      /\ at \in Nat /\ at \in DOMAIN jobs
      /\ Len(jobs[at].lists) \in Nat /\ DOMAIN jobs[at].lists = 1..Len(jobs[at].lists)
      /\ section \in 0..Len(jobs[at].lists)
    <2>1. Len(jobs) \in Nat /\ DOMAIN jobs = 1..Len(jobs)
        BY Lists DEF Inv, WellFormed
    <2>2. at \in 1..(Len(jobs) + 1) /\ at \in Nat /\ section \in 0..Len(jobs[at].lists)
        BY <1>1 DEF Inv, TypeOK
    <2>3. at \in DOMAIN jobs
        BY <1>1, <2>1, <2>2
    <2> QED BY <2>1, <2>2, <2>3, Lists DEF Inv, WellFormed
<1>3. xml[at] \in Seq(Parts) /\ xml[at] = UpTo(at, section)
    <2>1. Owing(Unfolded, stack) = << >> /\ xml[at] \in Seq(Parts)
        BY <1>1, <1>2, OwingNone DEF WritingInv
    <2>2. xml[at] \o << >> = xml[at]
        BY <2>1, ConcatEmptySeq
    <2> QED BY <1>1, <1>2, <2>1, <2>2 DEF WritingInv, JobAtHand
<1>4. Unfolded' = Unfolded /\ \A j, k : UpTo(j, k)' = UpTo(j, k)
    BY <1>1, UnfoldedStays, UpToStays
<1>5. ListsTyped' /\ \A j \in DOMAIN jobs' : xml'[j] \in Seq(Parts)'
    BY <1>1 DEF WritingInv, ListsTyped, Parts, Parameters
<1>6. CASE section = Len(jobs[at].lists)
    <2>1. at' = at + 1 /\ section' = 0 /\ stack' = << >>
        BY <1>1, <1>6 DEF StartList
    <2>2. NothingYet'
        <3>1. \A j \in DOMAIN jobs : j > at + 1 => j > at
            BY <1>2
        <3> QED BY <1>1, <2>1, <3>1 DEF WritingInv, NothingYet
    <2>3. JobsDone'
        <3>1. \A j \in DOMAIN jobs : j < at + 1 => j < at \/ j = at
            BY <1>2
        <3>2. \A j \in DOMAIN jobs : j < at => xml[j] = UpTo(j, Len(jobs[j].lists))
            BY <1>1 DEF WritingInv, JobsDone
        <3>3. \A j \in DOMAIN jobs : j < at + 1 => xml[j] = UpTo(j, Len(jobs[j].lists))
            BY <1>3, <1>6, <3>1, <3>2
        <3>4. \A j \in DOMAIN jobs : UpTo(j, Len(jobs[j].lists))' = UpTo(j, Len(jobs[j].lists))
            BY <1>1, <1>4
        <3> QED BY <1>1, <2>1, <3>3, <3>4 DEF JobsDone
    <2>4. JobAtHand'
        <3>1. ASSUME at + 1 \in DOMAIN jobs
              PROVE  xml[at + 1] = << >> /\ UpTo(at + 1, 0) = << >>
            <4>1. at + 1 > at
                BY <1>2
            <4>2. xml[at + 1] = << >>
                BY <3>1, <4>1 DEF WritingInv, NothingYet
            <4>3. UpTo(at + 1, 0) = << >>
                BY <3>1, UpToSteps DEF Inv, WritingInv
            <4> QED BY <4>2, <4>3
        <3>2. Owing(Unfolded, << >>) = << >> /\ << >> \o << >> = << >>
            BY OwingNone
        <3>3. \A j : j = at + 1 => UpTo(j, 0)' = UpTo(j, 0)
            BY <1>4
        <3> QED BY <1>1, <1>4, <2>1, <3>1, <3>2, <3>3 DEF JobAtHand
    <2> QED BY <1>1, <1>5, <2>1, <2>2, <2>3, <2>4 DEF WritingInv, CallsOfDispatch, Parameters
<1>7. CASE section # Len(jobs[at].lists)
    <2>1. /\ at' = at /\ section' = section + 1
          /\ stack' = IF list.id \notin DOMAIN lists THEN << >> ELSE <<call>>
        BY <1>1, <1>7 DEF StartList
    <2>2. section \in Nat /\ section + 1 \in DOMAIN jobs[at].lists
        BY <1>2, <1>7
    <2>3. stack' \in Seq(CallsOfDispatch) /\ Owing(Unfolded, stack') = Meaning(at, section + 1)
        <3>1. CASE list.id \notin DOMAIN lists
            <4>1. stack' = << >> /\ stack' \in Seq(CallsOfDispatch)
                BY <2>1, <3>1
            <4>2. Meaning(at, section + 1) = << >>
                BY <3>1 DEF Meaning
            <4> QED BY <4>1, <4>2, OwingNone
        <3>2. CASE list.id \in DOMAIN lists
            <4>1. call \in CallsOfDispatch
                BY <1>2, <2>2, <3>2, CallsOfListAre DEF Inv, WritingInv
            <4>2. Meaning(at, section + 1) = Unfolding(Unfolded, PartsOf(call))[MaxDepth]
                BY <3>2 DEF Meaning
            <4>3. stack' = <<call>>
                BY <2>1, <3>2
            <4>4. Unfolded \in [Parts -> Seq(Parts)]
                BY UnfoldedType DEF Inv
            <4> HIDE DEF call
            <4>5. Owing(Unfolded, <<call>>) = Unfolding(Unfolded, PartsOf(call))[MaxDepth]
                BY <4>1, <4>4, OneCallOwes
            <4>6. <<call>> \in Seq(CallsOfDispatch)
                BY <4>1
            <4> QED BY <4>2, <4>3, <4>5, <4>6
        <3> QED BY <3>1, <3>2
    <2>4. UpTo(at, section + 1) = UpTo(at, section) \o Meaning(at, section + 1)
        BY <1>2, <2>2, UpToSteps DEF Inv, WritingInv
    <2>5. NothingYet'
        BY <1>1, <2>1 DEF WritingInv, NothingYet
    <2>6. JobsDone'
        <3>1. \A j \in DOMAIN jobs : UpTo(j, Len(jobs[j].lists))' = UpTo(j, Len(jobs[j].lists))
            BY <1>1, <1>4
        <3> QED BY <1>1, <2>1, <3>1 DEF WritingInv, JobsDone
    <2>7. JobAtHand'
        <3>1. xml[at] \o Owing(Unfolded, stack') = UpTo(at, section + 1)
            BY <1>3, <2>3, <2>4
        <3>2. UpTo(at, section)' = UpTo(at, section + 1)
            BY <1>1, <1>4, <2>1 DEF UpTo
        <3> QED BY <1>1, <1>4, <2>1, <3>1, <3>2 DEF JobAtHand
    <2> QED BY <1>1, <1>2, <1>5, <2>1, <2>3, <2>5, <2>6, <2>7 DEF WritingInv, CallsOfDispatch, Parameters
<1> QED BY <1>6, <1>7

(* A step of dispatch keeps what is written and owed together.             *)
LEMMA StepWrites ==
    ASSUME Inv, WritingInv, outcome = "dispatching", stack # << >>,
           UNCHANGED <<macros, global, lists, jobs, at, section>>,
           stack' \in Seq(CallsOfDispatch),
           \A j \in DOMAIN jobs : j # at => xml'[j] = xml[j],
           xml'[at] \in Seq(Parts),
           outcome' \notin {"amending", "generated"},
           outcome' = "dispatching" =>
               xml'[at] \o Owing(Unfolded, stack') = xml[at] \o Owing(Unfolded, stack)
    PROVE  WritingInv'
<1>1. Unfolded' = Unfolded /\ \A j, k : UpTo(j, k)' = UpTo(j, k)
    BY UnfoldedStays, UpToStays
<1>2. at \in DOMAIN jobs
    BY DEF WritingInv
<1>3. ListsTyped' /\ (stack' # << >> => at' \in DOMAIN jobs')
    BY <1>2 DEF WritingInv, ListsTyped
<1>4. \A j \in DOMAIN jobs : xml'[j] \in Seq(Parts)
    BY DEF WritingInv
<1>5. NothingYet'
    <2>1. at \in Nat
        BY DEF Inv
    <2>2. \A j \in DOMAIN jobs : j > at => j # at
        BY <2>1
    <2> QED BY <2>2 DEF WritingInv, NothingYet
<1>6. JobsDone'
    <2>1. at \in Nat
        BY DEF Inv
    <2>2. \A j \in DOMAIN jobs : j < at => j # at
        BY <2>1
    <2>3. \A j \in DOMAIN jobs : j < at => xml'[j] = UpTo(j, Len(jobs[j].lists))
        BY <2>2 DEF WritingInv, JobsDone
    <2>4. \A j \in DOMAIN jobs : UpTo(j, Len(jobs[j].lists))' = UpTo(j, Len(jobs[j].lists))
        BY <1>1
    <2> QED BY <2>3, <2>4 DEF JobsDone
<1>7. JobAtHand'
    <2>1. xml[at] \o Owing(Unfolded, stack) = UpTo(at, section)
        BY <1>2 DEF WritingInv, JobAtHand
    <2>2. UpTo(at, section)' = UpTo(at, section)
        BY <1>1
    <2> QED BY <1>1, <2>1, <2>2 DEF JobAtHand
<1> QED BY <1>3, <1>4, <1>5, <1>6, <1>7 DEF WritingInv, CallsOfDispatch, Parts, Parameters

(* What is written already stays in front.                                 *)
LEMMA WrittenFirst ==
    ASSUME NEW f \in [Parts -> Seq(Parts)], NEW w \in Parts, f[w] = <<w>>,
           NEW q \in Seq(Parts), NEW k \in 0..MaxDepth
    PROVE  Unfolding(f, <<w>> \o q)[k] = <<w>> \o Unfolding(f, q)[k]
<1> DEFINE one == <<w>>
<1>1. one \in Seq(Parts) /\ UnfoldAll(f, one) = one
    BY UnfoldOne
<1> HIDE DEF one
<1>2. SideBySide(f, one, q)
    BY <1>1, UnfoldingConcat
<1>3. \A i \in 0..MaxDepth : Unfolding(f, one)[i] = one
    BY <1>1, UnfoldingStays
<1>4. Unfolding(f, one \o q)[k] = one \o Unfolding(f, q)[k]
    BY <1>2, <1>3 DEF SideBySide
<1> QED BY <1>4 DEF one

(* A macro puts its elements in its place.                                 *)
LEMMA MacroWrites ==
    ASSUME Inv, WritingInv, DispatchNext, Len(stack) <= MaxDepth, Dispatch(Element(Top, 1)),
           Element(Top, 1).name.lit \in DOMAIN macros[Top.type]
    PROVE  WritingInv'
<1> DEFINE c == Element(Top, 1)
           macro == macros[Top.type][c.name.lit]
           called == Calls(Top.type, macro.elements, FullParams(macro, c, Top.job_data),
                           Top.job_data, TRUE)
           left == Append(Below, Rest)
           n == Len(stack)
           f == Unfolded
<1>1. /\ outcome = "dispatching" /\ stack # << >> /\ Top.elements # << >>
      /\ UNCHANGED <<macros, global, lists, jobs, at, section>>
    BY DEF DispatchNext
<1>2. f \in [Parts -> Seq(Parts)]
    BY UnfoldedType DEF Inv
<1>3. Top \in CallsOfDispatch /\ Below \in Seq(CallsOfDispatch) /\ Rest \in CallsOfDispatch
    <2>1. n <= MaxDepth + 1
        BY DepthIsANumber DEF Inv, TypeOK
    <2>2. Top \in CallsOfDispatch /\ Below \in Seq(CallsOfDispatch)
        BY <1>1, <1>2, <2>1, TopOwes DEF WritingInv
    <2> QED BY <1>1, <2>2, RestOwes
<1>4. /\ left \in Seq(CallsOfDispatch) /\ Len(left) = n
      /\ Owing(f, stack) = Unfolding(f, f[First])[MaxDepth - n] \o Owing(f, left)
    BY <1>1, <1>2, DispatchOwes DEF WritingInv
<1>5. Top.type \in DOMAIN BuiltIn /\ c \in Components /\ Top.job_data \in Parameters
    <2>1. 1 \in DOMAIN Top.elements
        BY <1>1, <1>3 DEF CallsOfDispatch
    <2> QED BY <1>3, <2>1, ElementsAre DEF CallsOfDispatch
<1>6. called \in CallsOfDispatch /\ f[First] = PartsOf(called)
    <2>1. First = <<Top.type, c, Top.job_data>>
        BY DEF First
    <2> QED BY <1>5, <2>1, UnfoldedMacro DEF Inv
<1>7. stack' = Below \o <<Rest, called>> /\ UNCHANGED <<xml, outcome>>
    BY DEF Dispatch
<1> HIDE DEF c, macro, called, f
<1>8. stack' = Append(left, called) /\ stack' \in Seq(CallsOfDispatch)
    <2>1. Followed(Below, Rest, called)
        BY <1>3, <1>6, TwoMore
    <2>2. stack' = Append(left, called)
        BY <1>7, <2>1 DEF Followed
    <2> HIDE DEF left
    <2> QED BY <1>4, <1>6, <2>2
<1>9. Owing(f, Append(left, called)) = Unfolding(f, PartsOf(called))[MaxDepth - Len(left)] \o Owing(f, left)
    <2> HIDE DEF left
    <2>1. Len(left) <= MaxDepth
        BY <1>4
    <2> QED BY <1>2, <1>4, <1>6, <2>1, OwingMore
<1>10. Owing(f, stack') = Owing(f, stack)
    <2> HIDE DEF left, n
    <2> QED BY <1>4, <1>6, <1>8, <1>9
<1>11. at \in DOMAIN jobs /\ xml[at] \in Seq(Parts)
    BY <1>1 DEF WritingInv
<1>12. \A j \in DOMAIN jobs : j # at => xml'[j] = xml[j]
    BY <1>7
<1>13. outcome' \notin {"amending", "generated"}
    BY <1>1, <1>7
<1>14. xml'[at] \in Seq(Parts) /\ xml'[at] \o Owing(Unfolded, stack') = xml[at] \o Owing(Unfolded, stack)
    BY <1>7, <1>10, <1>11 DEF f
<1> QED BY <1>1, <1>8, <1>12, <1>13, <1>14, StepWrites

(* A function writes its element, the steps in it are then dispatched.     *)
LEMMA FunctionWrites ==
    ASSUME Inv, WritingInv, DispatchNext, Len(stack) <= MaxDepth, Dispatch(Element(Top, 1)),
           Element(Top, 1).name.lit \notin DOMAIN macros[Top.type],
           Element(Top, 1).name.lit \in BuiltIn[Top.type]
    PROVE  WritingInv'
<1> DEFINE c == Element(Top, 1)
           inner == Calls("builder", c.steps, << >>, << >>, FALSE)
           w == <<Top.type, c>>
           q == PartsOf(inner)
           left == Append(Below, Rest)
           n == Len(stack)
           K == MaxDepth - n
           f == Unfolded
           o == Owing(f, left)
           z == Unfolding(f, q)[K]
           x == xml[at]
           one == <<w>>
<1>1. /\ outcome = "dispatching" /\ stack # << >> /\ Top.elements # << >>
      /\ UNCHANGED <<macros, global, lists, jobs, at, section>>
    BY DEF DispatchNext
<1>2. f \in [Parts -> Seq(Parts)] /\ MaxDepth \in Nat /\ n \in Nat
    BY UnfoldedType, DepthIsANumber DEF Inv, WritingInv
<1>3. Top \in CallsOfDispatch /\ Below \in Seq(CallsOfDispatch) /\ Rest \in CallsOfDispatch
    <2>1. n <= MaxDepth + 1
        BY DepthIsANumber DEF Inv, TypeOK
    <2>2. Top \in CallsOfDispatch /\ Below \in Seq(CallsOfDispatch)
        BY <1>1, <1>2, <2>1, TopOwes DEF WritingInv
    <2> QED BY <1>1, <2>2, RestOwes
<1>4. /\ left \in Seq(CallsOfDispatch) /\ Len(left) = n
      /\ Owing(f, stack) = Unfolding(f, f[First])[K] \o o
    BY <1>1, <1>2, DispatchOwes DEF WritingInv
<1>5. Top.type \in DOMAIN BuiltIn /\ c \in Components /\ Top.job_data \in Parameters
    <2>1. 1 \in DOMAIN Top.elements
        BY <1>1, <1>3 DEF CallsOfDispatch
    <2> QED BY <1>3, <2>1, ElementsAre DEF CallsOfDispatch
<1>6. inner \in CallsOfDispatch /\ f[First] = <<w>> \o q /\ w \in Parts /\ f[w] = <<w>>
    <2>1. First = <<Top.type, c, Top.job_data>>
        BY DEF First
    <2>2. inner \in CallsOfDispatch /\ f[First] = <<w>> \o q
        BY <1>5, <2>1, UnfoldedOther DEF Inv
    <2>3. w \in Parts /\ f[w] = <<w>>
        BY <1>5, WrittenPart, UnfoldedWritten
    <2> QED BY <2>2, <2>3
<1>7. /\ xml' = [xml EXCEPT ![at] = Append(@, w)]
      /\ stack' = IF c.steps = << >> THEN left ELSE Below \o <<Rest, inner>>
      /\ UNCHANGED outcome
    BY DEF Dispatch
<1>8. K \in 0..MaxDepth
    BY <1>2, <1>4
<1>9. q \in Seq(Parts) /\ (c.steps = << >> => q = << >>)
    <2>1. q \in Seq(Parts)
        BY <1>6, PartsAre
    <2>2. c.steps = << >> => q = << >>
        BY DEF PartsOf, Calls
    <2> QED BY <2>1, <2>2
<1>10. at \in DOMAIN jobs /\ DOMAIN xml = DOMAIN jobs /\ x \in Seq(Parts)
    BY <1>1 DEF WritingInv, Inv, TypeOK
<1> HIDE DEF f
<1>11. o \in Seq(Parts)
    <2> HIDE DEF left, n
    <2>1. Len(left) <= MaxDepth + 1
        BY <1>2, <1>4 DEF n
    <2> QED BY <1>2, <1>4, <2>1, OwedLists
<1> HIDE DEF c, inner, w, q, K, n
<1>12. z \in Seq(Parts)
    <2>1. Unfolding(f, PartsOf(inner))[K] \in Seq(Parts)
        BY <1>2, <1>6, <1>8, UnfoldingTyped
    <2> QED BY <2>1 DEF q
<1>13. Unfolding(f, <<w>> \o q)[K] = <<w>> \o z
    BY <1>2, <1>6, <1>8, <1>9, WrittenFirst
<1>14. stack' \in Seq(CallsOfDispatch) /\ Owing(f, stack') = z \o o
    <2>1. CASE c.steps = << >>
        <3>1. q = << >> /\ stack' = left
            BY <1>7, <1>9, <2>1
        <3>2. z = << >>
            BY <1>2, <1>8, <3>1, UnfoldingNone
        <3>3. << >> \o o = o
            <4> HIDE DEF o
            <4> QED BY <1>11, ConcatEmptySeq
        <3> QED BY <1>4, <3>1, <3>2, <3>3
    <2>2. CASE c.steps # << >>
        <3>1. Followed(Below, Rest, inner)
            BY <1>3, <1>6, TwoMore
        <3>2. stack' = Append(left, inner)
            BY <1>7, <2>2, <3>1 DEF Followed
        <3>3. Len(left) <= MaxDepth /\ MaxDepth - Len(left) = K
            BY <1>4 DEF K, n
        <3> HIDE DEF left
        <3>4. Append(left, inner) \in Seq(CallsOfDispatch)
            BY <1>4, <1>6
        <3>5. Owing(f, Append(left, inner)) = Unfolding(f, PartsOf(inner))[MaxDepth - Len(left)] \o Owing(f, left)
            BY <1>2, <1>4, <1>6, <3>3, OwingMore
        <3> QED BY <3>2, <3>3, <3>4, <3>5 DEF q
    <2> QED BY <2>1, <2>2
<1> HIDE DEF left, o, z, x
<1>15. /\ xml'[at] = x \o one /\ xml'[at] \in Seq(Parts)
       /\ \A j \in DOMAIN jobs : j # at => xml'[j] = xml[j]
    <2>1. xml'[at] = Append(x, w)
        BY <1>7, <1>10 DEF x
    <2>2. Append(x, w) = x \o one /\ Append(x, w) \in Seq(Parts)
        BY <1>6, <1>10, OneMore
    <2>3. \A j \in DOMAIN jobs : j # at => xml'[j] = xml[j]
        BY <1>7, <1>10
    <2> QED BY <2>1, <2>2, <2>3
<1>16. one \in Seq(Parts) /\ one = <<w>>
    BY <1>6
<1> HIDE DEF one
<1>17. (x \o one) \o (z \o o) = x \o ((one \o z) \o o)
    <2>1. Chained(one, z, o)
        BY <1>11, <1>12, <1>16, Chain
    <2> DEFINE r == z \o o
    <2>2. r \in Seq(Parts)
        BY <1>11, <1>12
    <2> HIDE DEF r
    <2>3. Chained(x, one, r)
        BY <1>10, <1>16, <2>2, Chain
    <2> QED BY <2>1, <2>3 DEF Chained, r
<1>18. xml'[at] \o Owing(Unfolded, stack') = xml[at] \o Owing(Unfolded, stack)
    <2>1. Owing(f, stack) = (one \o z) \o o
        BY <1>4, <1>6, <1>13, <1>16
    <2>2. xml'[at] \o Owing(f, stack') = (x \o one) \o (z \o o)
        BY <1>14, <1>15
    <2> QED BY <1>17, <2>1, <2>2 DEF f, x
<1>19. outcome' \notin {"amending", "generated"}
    BY <1>1, <1>7
<1> QED BY <1>1, <1>14, <1>15, <1>18, <1>19, StepWrites

LEMMA DispatchWrites ==
    ASSUME Inv, WritingInv, DispatchNext
    PROVE  WritingInv'
<1> DEFINE c == Element(Top, 1)
<1>1. /\ outcome = "dispatching" /\ stack # << >>
      /\ UNCHANGED <<macros, global, lists, jobs, at, section>>
    BY DEF DispatchNext
<1>2. at \in DOMAIN jobs /\ xml[at] \in Seq(Parts) /\ stack \in Seq(CallsOfDispatch)
    BY <1>1 DEF WritingInv
<1>3. CASE UNCHANGED <<stack, xml>> /\ outcome' \in {"RecursionError", "undefined", "unknown"}
    <2>1. stack' \in Seq(CallsOfDispatch) /\ xml'[at] \in Seq(Parts)
        BY <1>2, <1>3
    <2>2. \A j \in DOMAIN jobs : j # at => xml'[j] = xml[j]
        BY <1>3
    <2>3. outcome' \notin {"amending", "generated"} /\ outcome' # "dispatching"
        BY <1>3
    <2> QED BY <1>1, <2>1, <2>2, <2>3, StepWrites
<1>4. \/ UNCHANGED <<stack, xml>> /\ outcome' \in {"RecursionError", "undefined", "unknown"}
      \/ Len(stack) <= MaxDepth /\ Dispatch(c)
    <2>1. Len(stack) > MaxDepth \/ Len(stack) <= MaxDepth
        BY <1>2, DepthIsANumber
    <2> HIDE DEF c
    <2> QED BY <2>1 DEF DispatchNext, c
<1>5. CASE Len(stack) <= MaxDepth /\ Dispatch(c)
    <2>1. CASE c.name.lit \in DOMAIN macros[Top.type]
        BY <1>5, <2>1, MacroWrites
    <2>2. CASE c.name.lit \notin DOMAIN macros[Top.type] /\ c.name.lit \in BuiltIn[Top.type]
        BY <1>5, <2>2, FunctionWrites
    <2>3. CASE c.name.lit \notin DOMAIN macros[Top.type] /\ c.name.lit \notin BuiltIn[Top.type]
        <3>1. outcome' = "unknown" /\ UNCHANGED <<stack, xml>>
            BY <1>5, <2>3 DEF Dispatch
        <3> QED BY <1>3, <3>1
    <2> QED BY <2>1, <2>2, <2>3
<1> QED BY <1>3, <1>4, <1>5

(* A call that has nothing left owes nothing.                              *)
LEMMA ReturnWrites ==
    ASSUME Inv, WritingInv, ReturnFromDispatch
    PROVE  WritingInv'
<1> DEFINE f == Unfolded
           b == Below
           o == Owing(f, b)
<1>1. /\ outcome = "dispatching" /\ outcome' = "dispatching"
      /\ stack # << >> /\ Top.elements = << >> /\ stack' = b
      /\ UNCHANGED <<macros, global, lists, jobs, at, section, xml>>
    BY DEF ReturnFromDispatch
<1>2. f \in [Parts -> Seq(Parts)] /\ MaxDepth \in Nat /\ Len(stack) \in Nat
    BY UnfoldedType, DepthIsANumber DEF Inv, WritingInv
<1>3. Len(stack) <= MaxDepth + 1 /\ Len(stack) # 0
    BY <1>1, <1>2 DEF Inv, TypeOK, WritingInv
<1>4. /\ Top \in CallsOfDispatch /\ b \in Seq(CallsOfDispatch) /\ Len(b) = Len(stack) - 1
      /\ Owing(f, stack) = Unfolding(f, PartsOf(Top))[MaxDepth + 1 - Len(stack)] \o o
    BY <1>1, <1>2, <1>3, TopOwes DEF WritingInv
<1>5. PartsOf(Top) = << >>
    BY <1>1 DEF PartsOf
<1> HIDE DEF f, b
<1>6. MaxDepth + 1 - Len(stack) \in 0..MaxDepth /\ Len(b) <= MaxDepth + 1
    BY <1>2, <1>3, <1>4
<1>7. Unfolding(f, << >>)[MaxDepth + 1 - Len(stack)] = << >>
    BY <1>2, <1>6, UnfoldingNone
<1>8. o \in Seq(Parts)
    BY <1>2, <1>4, <1>6, OwedLists
<1> HIDE DEF o
<1>9. << >> \o o = o
    BY <1>8, ConcatEmptySeq
<1>10. Owing(f, stack') = Owing(f, stack)
    BY <1>1, <1>4, <1>5, <1>7, <1>9 DEF o
<1>11. xml'[at] \in Seq(Parts) /\ xml'[at] \o Owing(Unfolded, stack') = xml[at] \o Owing(Unfolded, stack)
    <2>1. at \in DOMAIN jobs
        BY <1>1 DEF WritingInv
    <2> QED BY <1>1, <1>10, <2>1 DEF f, WritingInv
<1>12. \A j \in DOMAIN jobs : j # at => xml'[j] = xml[j]
    BY <1>1
<1>13. outcome' \notin {"amending", "generated"} /\ stack' \in Seq(CallsOfDispatch)
    BY <1>1, <1>4
<1> QED BY <1>1, <1>11, <1>12, <1>13, StepWrites

LEMMA FinishWrites ==
    ASSUME Inv, WritingInv, Finish
    PROVE  WritingInv'
<1>1. /\ outcome = "dispatching" /\ outcome' = "generated" /\ stack = << >> /\ at > Len(jobs)
      /\ UNCHANGED <<macros, global, lists, jobs, at, section, stack, xml>>
    BY DEF Finish
<1>2. \A j, k : UpTo(j, k)' = UpTo(j, k)
    BY <1>1, UpToStays
<1>3. \A j \in DOMAIN jobs : UpTo(j, Len(jobs[j].lists))' = UpTo(j, Len(jobs[j].lists))
    BY <1>1, <1>2
<1>4. NothingYet' /\ JobsDone' /\ JobAtHand'
    BY <1>1, <1>3 DEF WritingInv, NothingYet, JobsDone, JobAtHand
<1>5. ListsTyped' /\ \A j \in DOMAIN jobs' : xml'[j] \in Seq(Parts)'
    BY <1>1 DEF WritingInv, ListsTyped, Parts, Parameters
<1> QED BY <1>1, <1>4, <1>5 DEF WritingInv, CallsOfDispatch, Parameters

LEMMA NextWriting == Inv /\ WritingInv /\ [Next]_vars => WritingInv'
<1> SUFFICES ASSUME Inv, WritingInv, [Next]_vars
             PROVE  WritingInv'
    OBVIOUS
<1>1. CASE UNCHANGED vars
    <2>1. UNCHANGED <<macros, global, lists, jobs, at, section, stack, xml, outcome>>
        BY <1>1 DEF vars
    <2>2. Unfolded' = Unfolded /\ \A j, k : UpTo(j, k)' = UpTo(j, k)
        BY <2>1, UnfoldedStays, UpToStays
    <2>3. /\ \A j \in DOMAIN jobs : UpTo(j, Len(jobs[j].lists))' = UpTo(j, Len(jobs[j].lists))
          /\ UpTo(at, section)' = UpTo(at, section)
        BY <2>1, <2>2
    <2>4. NothingYet' /\ JobsDone' /\ JobAtHand'
        BY <2>1, <2>2, <2>3 DEF WritingInv, NothingYet, JobsDone, JobAtHand
    <2>5. ListsTyped' /\ \A j \in DOMAIN jobs' : xml'[j] \in Seq(Parts)'
        BY <2>1 DEF WritingInv, ListsTyped, Parts, Parameters
    <2> QED BY <2>1, <2>4, <2>5 DEF WritingInv, CallsOfDispatch, Parameters
<1> QED BY <1>1, AmendJobWrites, EndPassWrites, StartListWrites, DispatchWrites, ReturnWrites,
           FinishWrites DEF Next

(* Whatever the macros, the components and the jobs: when the jobs were    *)
(* generated, each has got what its lists stand for, every macro written   *)
(* out with its parameters, in order (registry.py:182-302,                 *)
(* macro.py:82-111).                                                       *)
THEOREM WrittenOut == Spec => []WrittenInFull
<1>1. Inv /\ WritingInv => WrittenInFull
    <2> SUFFICES ASSUME Inv, WritingInv, outcome = "generated", NEW j \in DOMAIN jobs
                 PROVE  xml[j] = FlattenSeq([n \in DOMAIN jobs[j].lists |-> Meaning(j, n)])
        BY DEF WrittenInFull
    <2>1. /\ DOMAIN jobs = 1..Len(jobs) /\ Len(jobs) \in Nat /\ at \in Nat
          /\ DOMAIN jobs[j].lists = 1..Len(jobs[j].lists)
        BY Lists DEF Inv, WellFormed
    <2>2. j < at
        BY <2>1 DEF WritingInv
    <2>3. xml[j] = UpTo(j, Len(jobs[j].lists))
        BY <2>2 DEF WritingInv, JobsDone
    <2> QED BY <2>1, <2>3 DEF UpTo
<1> QED BY <1>1, InitType, NextType, InitWriting, NextWriting, PTL DEF Spec
=============================================================================
