-------------------------------- MODULE Roots --------------------------------
(***************************************************************************)
(* jenkins_jobs/roots.py with root_base.py, job.py, view.py, project.py    *)
(* and defaults.py: the containers of the definitions that were loaded,    *)
(* and the lists of jobs and views they generate.                          *)
(*                                                                         *)
(* A definition is a record with a `kind', one of                          *)
(*   defaults          id, params, contents                                *)
(*   job, view         id, name, defaults, params, contents                *)
(*   job-, view-template   the same, with defaults for axes of its name    *)
(*                     and has_id: whether the id is given or is the name  *)
(*   job-, view-group  id, specs, params                                   *)
(*   project           id, defaults, job and view specs, params            *)
(* A name is a text with the parameters it is filled with; contents are a  *)
(* function from keys to values that are not looked into.  A dictionary is *)
(* a sequence of definitions of different ids: Python keeps the order of   *)
(* insertion, and a key that is assigned again keeps its place.            *)
(***************************************************************************)
EXTENDS Dimensions

CONSTANT None

Kinds == {"defaults", "job", "job-template", "job-group",
          "view", "view-template", "view-group", "project"}

TemplateOf == [job |-> "job-template", view |-> "view-template"]
GroupOf == [job |-> "job-group", view |-> "view-group"]

NoRoots == [kind \in Kinds |-> << >>]

(* What the constructors of the elements make of the YAML: axes, and the   *)
(* specs of groups and projects, are lists, and so is every value.         *)
IsList(s) == s \in Seq(ToSet(s))
Values(params) == \A p \in DOMAIN params : IsList(params[p])
Specs(specs) == IsList(specs) /\ \A i \in DOMAIN specs : Values(specs[i].params)

Shaped(d) ==
    /\ Values(d.params)
    /\ d.kind \in {TemplateOf["job"], TemplateOf["view"]} =>
           IsList(d.name.axes) /\ Values(d.axis_defaults)
    /\ d.kind \in {GroupOf["job"], GroupOf["view"]} => Specs(d.specs)
    /\ d.kind = "project" => Specs(d["job"]) /\ Specs(d["view"])

At(dict, id) == SelectInSeq(dict, LAMBDA d : d.id = id)
Has(dict, id) == At(dict, id) # 0
Get(dict, id) == dict[At(dict, id)]

(* container[id] = value                                                   *)
Assigned(dict, value) ==
    IF Has(dict, value.id) THEN ReplaceAt(dict, At(dict, value.id), value)
    ELSE Append(dict, value)

-----------------------------------------------------------------------------
(* What goes wrong is an item of its own, the whole generation fails then. *)
Failure == <<[ok |-> FALSE]>>

(* _pick_defaults: the named defaults over the global ones, which may be   *)
(* missing.                                                                *)
HasDefaults(roots, name) == name = "global" \/ Has(roots["defaults"], name)

PickDefaults(roots, name) ==
    LET own(n) == IF Has(roots["defaults"], n) THEN Get(roots["defaults"], n)
                  ELSE [params |-> NoParams, contents |-> << >>]
    IN  [params |-> Merge(own("global").params, own(name).params),
         contents |-> Merge(own("global").contents, own(name).contents)]

(* _expand_contents: the name is filled in, the folder of a job goes       *)
(* before it, and a description marks the item as managed.                 *)
Expanded(el, contents, params, axis_defaults, keep_descriptions, context) ==
    LET unknown == ToSet(el.name.axes) \ (DOMAIN params \cup DOMAIN axis_defaults)
        filled(a) == IF a \in DOMAIN params THEN params[a] ELSE axis_defaults[a]
        in_folder == el.kind \in {"job", "job-template"} /\ "folder" \in DOMAIN contents
    IN  IF unknown # {} THEN Failure
        ELSE <<[ok |-> TRUE,
                name |-> [folder |-> IF in_folder THEN contents["folder"] ELSE None,
                          text |-> el.name.text,
                          with |-> [a \in ToSet(el.name.axes) |-> filled(a)]],
                contents |-> contents,
                params |-> params,
                managed |-> "description" \in DOMAIN contents \/ ~keep_descriptions,
                context |-> context]>>

(* NonTemplateRootMixin.top_level_generate_items                           *)
TopLevelItems(roots, el, keep_descriptions) ==
    LET defaults == PickDefaults(roots, el.defaults)
    IN  IF ~HasDefaults(roots, el.defaults) THEN Failure
        ELSE Expanded(el, Merge(defaults.contents, el.contents),
                      Merge(defaults.params, el.params), NoParams,
                      keep_descriptions, <<el.id>>)

(* An id that a template gives itself is its parameter of that name, set   *)
(* after everything is merged.                                             *)
GivenId(el) == IF el.has_id THEN Param("id", Scalar(el.id)) ELSE NoParams

TemplateParams(defaults, el, params) ==
    MergeAll(<<defaults.params, el.params, params,
               Param("template-name", Scalar(el.name.text)), GivenId(el)>>)

(* TemplateRootMixin.generate_items                                        *)
TemplateItems(roots, el, defaults_name, params, keep_descriptions, context) ==
    LET picked == IF defaults_name # None THEN defaults_name ELSE el.defaults
        defaults == PickDefaults(roots, picked)
        item_params == TemplateParams(defaults, el, params)
        points == enum_dimensions_params(el.name.axes, item_params, el.axis_defaults)
        exclude(ps) == IF "exclude" \in DOMAIN ps THEN ps["exclude"] ELSE << >>
        at(point) ==
            LET ps == Merge(item_params, point)
                verdict == is_point_included(exclude(ps), ps)
            IN  CASE verdict = "excluded" -> << >>
                  [] verdict = "error"    -> Failure
                  [] OTHER -> Expanded(el, Merge(defaults.contents, el.contents), ps,
                                       el.axis_defaults, keep_descriptions,
                                       Append(context, el.id))
    IN  IF ~HasDefaults(roots, picked) THEN Failure
        ELSE FlattenSeq([i \in DOMAIN points |-> at(points[i])])

(* A job or view that a project or a group names is not generated there:   *)
(* it comes from the top level.                                            *)
RootItems(roots, el, defaults_name, params, keep_descriptions, context) ==
    IF el.kind \in {"job", "view"} THEN << >>
    ELSE TemplateItems(roots, el, defaults_name, params, keep_descriptions, context)

(* GroupBase._generate_items and _pick_spec_item: a name is looked up in   *)
(* the dictionaries one after the other.                                   *)
SpecItems(dicts, specs, params, context, Generate(_, _, _)) ==
    LET found(spec) == SelectInSeq(dicts, LAMBDA d : Has(d, spec.name))
        of(i) == IF found(specs[i]) = 0 THEN Failure
                 ELSE Generate(Get(dicts[found(specs[i])], specs[i].name),
                               Merge(params, specs[i].params),
                               Append(context, i))
    IN  FlattenSeq([i \in DOMAIN specs |-> of(i)])

(* Mutant of GroupItems: what the project says wins over the group.        *)
GroupItemsProjectWins(roots, what, group, defaults_name, params, keep_descriptions, context) ==
    SpecItems(<<roots[what], roots[TemplateOf[what]]>>, group.specs,
              Merge(group.params, params), Append(context, group.id),
              LAMBDA el, ps, ctx :
                  RootItems(roots, el, defaults_name, ps, keep_descriptions, ctx))

GroupItems(roots, what, group, defaults_name, params, keep_descriptions, context) ==
    SpecItems(<<roots[what], roots[TemplateOf[what]]>>, group.specs,
              Merge(params, group.params), Append(context, group.id),
              LAMBDA el, ps, ctx :
                  RootItems(roots, el, defaults_name, ps, keep_descriptions, ctx))

(* Project.generate_jobs and generate_views                                *)
ProjectItems(roots, what, project, keep_descriptions) ==
    SpecItems(<<roots[what], roots[TemplateOf[what]], roots[GroupOf[what]]>>,
              project[what], Merge(project.params, Param("name", Scalar(project.id))),
              <<project.id>>,
              LAMBDA el, ps, ctx :
                  IF el.kind = GroupOf[what]
                  THEN GroupItems(roots, what, el, project.defaults, ps, keep_descriptions, ctx)
                  ELSE RootItems(roots, el, project.defaults, ps, keep_descriptions, ctx))

(* The loops of generate_jobs and generate_views, before duplicates go.    *)
GeneratedList(roots, what, keep_descriptions) ==
    LET tops == roots[what]
        projects == roots["project"]
    IN  FlattenSeq([i \in DOMAIN tops |-> TopLevelItems(roots, tops[i], keep_descriptions)])
        \o FlattenSeq([i \in DOMAIN projects |->
                          ProjectItems(roots, what, projects[i], keep_descriptions)])

Fails(items) == \E i \in DOMAIN items : ~items[i].ok

HasDuplicates(items) ==
    \E i, j \in DOMAIN items : i # j /\ items[i].name = items[j].name

(* Mutant of RemoveDuplicates: the first definition wins.                  *)
KeepFirst(items) ==
    FoldLeft(LAMBDA unique, item :
                 IF \E i \in DOMAIN unique : unique[i].name = item.name THEN unique
                 ELSE Append(unique, item),
             << >>, items)

(* _remove_duplicates: the list is read from its end.                      *)
RemoveDuplicates(items) ==
    FoldRight(LAMBDA item, unique :
                  IF \E i \in DOMAIN unique : unique[i].name = item.name THEN unique
                  ELSE <<item>> \o unique,
              items, << >>)
=============================================================================
