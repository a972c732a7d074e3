------------------------------ MODULE MCLoader ------------------------------
(***************************************************************************)
(* Two files of a directory, one of them also reached by a link, and the   *)
(* standard input.  What they hold is put together from a fixed part and   *)
(* from definitions that are in one of them or in none.                    *)
(***************************************************************************)
EXTENDS Loader

CONSTANTS Dir, Notes, F1, F2, Link

MCPathList == <<Dir, Link, Stdin>>
MCListing == Dir :> {F1, F2, Notes}
MCYaml == {F1, F2, Link}
MCResolve == F1 :> F1 @@ F2 :> F2 @@ Link :> F1

P(name, v) == name :> Scalar(v)
Name(text, axes) == [text |-> text, axes |-> axes]
Spec1(name, params) == <<[name |-> name, params |-> params]>>

Defaults(id, params, contents) ==
    [kind |-> "defaults", id |-> id, params |-> params, contents |-> contents]
Item(kind, id, name, params, contents) ==
    [kind |-> kind, id |-> id, has_id |-> FALSE, name |-> name, defaults |-> "global",
     params |-> params, contents |-> contents, axis_defaults |-> NoParams]
Group(what, id, specs, params) ==
    [kind |-> GroupOf[what], id |-> id, specs |-> specs, params |-> params]
ProjectOf(id, defaults, job, view, params) ==
    [kind |-> "project", id |-> id, defaults |-> defaults, job |-> job, view |-> view,
     params |-> params]

(* A template with two axes: a point of the first brings x along, and the  *)
(* second has a default only; one of the four points is left out.          *)
Axes == "a" :> <<[is |-> "1", also |-> NoParams], [is |-> "2", also |-> P("x", "of a2")]>>
Template1 ==
    [Item("job-template", "t", Name("t", <<"a", "b">>),
          Axes @@ P("y", "template") @@ P("x", "template")
          @@ "exclude" :> << <<<<"a", Scalar("1")>>, <<"b", Scalar("4")>>>> >>,
          "folder" :> "f")
     EXCEPT !.has_id = TRUE, !.axis_defaults =
         "b" :> <<[is |-> "3", also |-> P("y", "of b3")], [is |-> "4", also |-> NoParams]>>]

(* The same id; a point of its first axis overrides the second one.        *)
Template2 ==
    Item("job-template", "t", Name("t", <<"a", "b">>),
         P("b", "3") @@ "a" :> <<[is |-> "1", also |-> NoParams], [is |-> "2", also |-> P("b", "9")]>>,
         NoParams)

JobJ == Item("job", "j", Name("j", << >>), NoParams, NoParams)
JobJ2 == Item("job", "j", Name("j", << >>), P("y", "job"), "description" :> "d")
JobT == Item("job", "t1", Name("u", <<"a">>), P("a", "1"), NoParams)
Template3 == Item("job-template", "u", Name("u", <<"a">>), P("a", "1"), NoParams)
View == Item("view", "v", Name("v", << >>), NoParams, NoParams)
ViewTemplate ==
    [Item("view-template", "w", Name("v", << >>), P("y", "view"), NoParams)
     EXCEPT !.has_id = TRUE]

GroupG == Group("job", "g", Spec1("t", P("y", "group spec") @@ P("id", "group spec")),
                P("x", "group"))
GroupW == Group("view", "gw", Spec1("w", NoParams), P("y", "group"))

ProjectP == ProjectOf("p", None, Spec1("g", P("y", "project spec")), << >>,
                      P("x", "project") @@ P("z", "project"))
ProjectQ == ProjectOf("q", "special", Spec1("u", P("y", "spec")) \o Spec1("j", NoParams),
                      Spec1("gw", NoParams), P("z", "project") @@ P("id", "project"))
Global == Defaults("global", P("z", "global") @@ P("y", "global"), NoParams)
Special == Defaults("special", P("z", "special"), "description" :> "d")
Special2 == Defaults("special", P("y", "special"), "folder" :> "h")

(* The definitions that are in one of the files, or in none.               *)
Free == <<Global, Special, Template2, JobJ2, JobT, View>>
Placed(where, file) ==
    FlattenSeq([i \in DOMAIN Free |-> IF where[i] = file THEN <<Free[i]>> ELSE << >>])

File(defs, sets, refers) ==
    [items |-> defs, anchors |-> sets, aliases |-> refers, is_list |-> TRUE]

Places == [DOMAIN Free -> {F1, F2, None}]
AllInOne == {[i \in DOMAIN Free |-> f] : f \in {F1, F2, None}}

Contents(places, aliases) ==
    {F1 :> File(<<[kind |-> "hidden"], Template1, ProjectQ, ViewTemplate>> \o Placed(where, F1),
                {"anchor"}, {"anchor"})
     @@ F2 :> File(Placed(where, F2) \o <<ProjectP, GroupG, JobJ>>, {}, refers)
     @@ Stdin :> File(<<Template3, GroupW>> \o last, {}, {}) :
        where \in places,
        refers \in aliases,
        last \in {<< >>, <<Special2>>}}

(* Files that are refused.                                                 *)
Wrong ==
    {F1 :> File(<<JobT>>, {}, {}) @@ F2 :> f @@ Stdin :> File(<<View>>, {}, {}) :
        f \in {[File(<< >>, {}, {}) EXCEPT !.is_list = FALSE],
               File(<<JobJ, [kind |-> "jobs", id |-> "j"]>>, {}, {})}}

MCInit ==
    /\ yamlparser \in Options
    /\ content \in Contents(AllInOne, {{}, {"anchor"}}) \cup Wrong
                  \cup (IF yamlparser.retain_anchors \/ yamlparser.keep_descriptions
                        THEN {} ELSE Contents(Places, {{}}))
    /\ WellFormed
    /\ Init

MCSpec == MCInit /\ [][Next]_vars

(* The names of the files are in the order F1, F2.                         *)
FilesInAlphabeticalOrder ==
    AnchorsOfEarlierFiles(LAMBDA f, g : f = F1 /\ g = F2)
=============================================================================
