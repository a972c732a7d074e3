------------------------------ MODULE MCRegistry ------------------------------
(***************************************************************************)
(* Two families of inputs: macros that call each other in every way, with  *)
(* one job; and two jobs with every choice of Zuul's triggers, whose lists *)
(* are their own or, for CONSTANT Shared, may be the same objects.         *)
(***************************************************************************)
EXTENDS Macros, TLC

CONSTANT Shared

Lit(v) == [lit |-> v]
Ref(p) == [ref |-> p]
Call(name, args, steps) == [name |-> Lit(name), args |-> args, steps |-> steps]
Plain(name) == Call(name, << >>, << >>)

MCBuiltIn == [builder |-> {"shell", "conditional-step"}, parameter |-> {"string", "ZUUL_UUID", "ZUUL_REF", "OLDREV"},
              property |-> {"throttle"}, trigger |-> {"timed"}]

MCZuulTriggers ==
    <<[trigger |-> Plain("zuul"), parameters |-> <<Plain("ZUUL_UUID"), Plain("ZUUL_REF")>>],
      [trigger |-> Plain("zuul-post"), parameters |-> <<Plain("ZUUL_UUID"), Plain("OLDREV")>>]>>

Macro(params, elements) == [params |-> params, elements |-> elements]
NoMacros == [type \in DOMAIN MCBuiltIn |-> << >>]
X(v) == "x" :> v

-----------------------------------------------------------------------------
Shell == Call("shell", X(Ref("x")), << >>)

Elements ==
    {Shell, Plain("shell"), Plain("m1"), Call("m2", X(Ref("x")), << >>),
     Call("m2", X(Lit("two")), << >>),
     Call("conditional-step", << >>, <<Call("m2", X(Ref("x")), << >>), Plain("shell")>>)}

BuilderMacros ==
    {"m1" :> Macro(own, body) @@ "m2" :> Macro(X(Lit("own of m2")), <<second>>) @@ masking :
        own \in {<< >>, X(Lit("own"))},
        body \in {<<e>> : e \in Elements} \cup {<<e, f>> : e \in Elements, f \in Elements},
        second \in {Shell, Plain("shell"), Plain("m1")},
        masking \in {<< >>, "shell" :> Macro(<< >>, <<Plain("shell")>>),
                     "shell" :> Macro(<< >>, <<Call("conditional-step", X(Ref("x")), << >>)>>)}}

Throttle == "t" :> Macro(X(Lit("own")), <<Call("throttle", X(Ref("x")), << >>)>>)

OneJob(data, component) ==
    /\ jobs = <<[data |-> data, triggers |-> "none", parameters |-> "none",
                 lists |-> <<[type |-> "property", id |-> "p"], [type |-> "builder", id |-> "b"]>>]>>
    /\ loaded = "p" :> <<Call("t", X(Lit("arg")), << >>)>> @@ "b" :> <<component, Plain("m1")>>

MacroInit ==
    /\ \E b \in BuilderMacros : macros = [NoMacros EXCEPT !.builder = b, !.property = Throttle]
    /\ global \in {<< >>, X(Lit("default"))}
    /\ \E data \in {<< >>, X(Lit("job"))}, args \in {<< >>, X(Lit("arg"))} :
           \/ OneJob(data, Call("m1", args, << >>))
           \/ OneJob(data, Call("conditional-step", << >>, <<Call("m1", args, << >>)>>))

-----------------------------------------------------------------------------
(* "timed" stands for any other trigger, "string" for any parameter.       *)
TriggerLists ==
    {<< >>, <<Plain("timed")>>, <<Plain("zuul")>>, <<Plain("zuul-post"), Plain("zuul")>>,
     <<Plain("zuul"), Plain("timed")>>, <<Plain("nothing")>>}

Job(triggers, parameters, more) ==
    [data |-> << >>, triggers |-> triggers, parameters |-> parameters,
     lists |-> <<[type |-> "parameter", id |-> parameters], [type |-> "trigger", id |-> triggers]>>
               \o more]

ZuulInit ==
    /\ macros = NoMacros
    /\ global = << >>
    /\ \E second \in IF Shared THEN {<<"t1", "p1">>, <<"t1", "p2">>, <<"t2", "p1">>} ELSE {<<"t2", "p2">>} :
           jobs = <<Job("t1", "p1", <<[type |-> "builder", id |-> "none"]>>),
                     Job(second[1], second[2], << >>)>>
    /\ \E t1, t2 \in TriggerLists, p \in SUBSET {"p1", "p2"} :
           loaded = "t1" :> t1 @@ "t2" :> t2 @@ [id \in p |-> <<Plain("string")>>]

-----------------------------------------------------------------------------
(* Every component of these inputs, with all that its expansion can give   *)
(* and the steps inside.                                                   *)
MCParameterNames == {"x"}

MCValues == {Lit(v) : v \in {"own", "own of m2", "two", "arg", "job", "default"}} \cup {Ref("x")}

WithoutSteps ==
    {Plain(name) : name \in {"shell", "m1", "string", "ZUUL_UUID", "ZUUL_REF", "OLDREV",
                             "timed", "zuul", "zuul-post", "nothing"}}
    \cup {Call(name, X(v), << >>) : name \in {"shell", "m1", "m2", "t", "throttle", "conditional-step"},
                                  v \in MCValues}

MCComponents ==
    WithoutSteps
    \cup {Call("conditional-step", << >>, <<call>>) : call \in WithoutSteps}
    \cup {Call("conditional-step", << >>, <<call, Plain("shell")>>) : call \in WithoutSteps}

MCInit == (MacroInit \/ ZuulInit) /\ WellFormed /\ Init

MCSpec == MCInit /\ [][Next]_vars /\ Fairness
=============================================================================
