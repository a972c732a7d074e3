-------------------------------- MODULE Loader --------------------------------
(***************************************************************************)
(* jenkins_jobs/loader.py: the files of the command line are read one      *)
(* after the other and what they define goes to the containers of Roots,   *)
(* from which JobsSubCommand.make_jobs_and_views_xml then generates the    *)
(* jobs and the views.                                                     *)
(*                                                                         *)
(* The files of a directory come in any order: Path.iterdir() promises     *)
(* none.  A file is what YAML makes of it: a list of definitions, the      *)
(* anchors it sets and the anchors of others that it refers to.            *)
(***************************************************************************)
EXTENDS Roots, FiniteSets

CONSTANTS
    PathList,  \* the paths of the command line, a sequence
    Stdin,     \* the one that stands for the standard input
    Listing,   \* what a directory holds, for the paths that are directories
    Yaml,      \* the paths that end with .yml or .yaml
    Resolve    \* where a path leads, if through a link

(* Given a path, the entries of a directory count, else the path itself.   *)
FilePaths ==
    (ToSet(PathList) \ (DOMAIN Listing \cup {Stdin}))
        \cup UNION {Listing[d] \cap Yaml : d \in DOMAIN Listing \cap ToSet(PathList)}

(* The standard input is given at most once, and no path is it or leads to *)
(* it (cli/entry.py:116-130).                                              *)
ASSUME CommandLine ==
    /\ PathList \in Seq(ToSet(PathList))
    /\ \A i, j \in DOMAIN PathList : PathList[i] = Stdin /\ PathList[j] = Stdin => i = j
    /\ Stdin \notin DOMAIN Listing
    /\ \A p \in FilePaths : Resolve[p] # Stdin

VARIABLES
    yamlparser,   \* the options of the section of that name
    content,      \* what is in the files
    paths,        \* the paths that are left
    listing,      \* the entries of a directory that are left
    visited,      \* visited_set
    anchors,      \* Loader.anchors between two files
    items,        \* the definitions of a file that are left
    roots,
    jobs, views,  \* what was generated
    outcome       \* "loading", "generated" or what went wrong

vars == <<yamlparser, content, paths, listing, visited, anchors, items, roots,
          jobs, views, outcome>>

Options == [allow_duplicates : BOOLEAN, retain_anchors : BOOLEAN,
            keep_descriptions : BOOLEAN]

-----------------------------------------------------------------------------
(* The files the command line reaches.                                     *)
Reached == {Resolve[p] : p \in FilePaths} \cup (ToSet(PathList) \cap {Stdin})

(* What is in them: lists of elements, with the parts each kind has.       *)
WellFormed ==
    \A f \in Reached : content[f].is_list =>
        /\ IsList(content[f].items)
        /\ \A i \in DOMAIN content[f].items :
               content[f].items[i].kind \in Kinds => Shaped(content[f].items[i])

Init ==
    /\ paths = PathList
    /\ listing = {}
    /\ visited = {}
    /\ anchors = {}
    /\ items = << >>
    /\ roots = NoRoots
    /\ jobs = << >> /\ views = << >>
    /\ outcome = "loading"

(* The iteration of enum_expanded_paths goes on when the definitions of a  *)
(* file are all added.                                                     *)
Idle == outcome = "loading" /\ items = << >>

(* Loader.load: a file may refer to the anchors it sets and to those kept  *)
(* of earlier files.  A file without a document has no definitions; one    *)
(* that is no list is refused.                                             *)
LoadFile(file) ==
    LET data == content[file]
    IN  /\ anchors' = IF yamlparser.retain_anchors THEN anchors \cup data.anchors
                      ELSE anchors
        /\ IF ~(data.aliases \subseteq anchors \cup data.anchors)
           THEN outcome' = "undefined alias" /\ UNCHANGED items
           ELSE IF ~data.is_list
           THEN outcome' = "no list" /\ UNCHANGED items
           ELSE items' = data.items /\ UNCHANGED outcome

(* Mutant of Visit: the path is remembered, not where it leads.            *)
VisitPath(path) ==
    IF path \in visited
    THEN UNCHANGED <<visited, anchors, items, outcome>>
    ELSE visited' = visited \cup {path} /\ LoadFile(Resolve[path])

(* real(): a file that was read is not read again under another name.      *)
Visit(path) ==
    IF Resolve[path] \in visited
    THEN UNCHANGED <<visited, anchors, items, outcome>>
    ELSE visited' = visited \cup {Resolve[path]} /\ LoadFile(Resolve[path])

NextPath ==
    /\ Idle /\ listing = {} /\ paths # << >>
    /\ paths' = Tail(paths)
    /\ IF Head(paths) = Stdin
       THEN LoadFile(Stdin) /\ UNCHANGED <<listing, visited>>
       ELSE IF Head(paths) \in DOMAIN Listing
       THEN /\ listing' = Listing[Head(paths)] \cap Yaml
            /\ UNCHANGED <<visited, anchors, items, outcome>>
       ELSE Visit(Head(paths)) /\ UNCHANGED listing
    /\ UNCHANGED <<yamlparser, content, roots, jobs, views>>

NextOfDirectory(path) ==
    /\ Idle /\ path \in listing
    /\ listing' = listing \ {path}
    /\ Visit(path)
    /\ UNCHANGED <<yamlparser, content, paths, roots, jobs, views>>

(* One element of the list: hidden ones are skipped, defaults replace      *)
(* those of the same name, anything else may be there once, unless         *)
(* duplicates are allowed.                                                 *)
AddItem ==
    LET item == Head(items) IN
    /\ outcome = "loading" /\ items # << >>
    /\ items' = Tail(items)
    /\ IF item.kind = "hidden"
       THEN UNCHANGED <<roots, outcome>>
       ELSE IF item.kind \notin Kinds
       THEN outcome' = "unknown element" /\ UNCHANGED roots
       ELSE IF /\ item.kind # "defaults" /\ ~yamlparser.allow_duplicates
               /\ Has(roots[item.kind], item.id)
       THEN outcome' = "duplicate" /\ UNCHANGED roots
       ELSE roots' = [roots EXCEPT ![item.kind] = Assigned(@, item)] /\ UNCHANGED outcome
    /\ UNCHANGED <<yamlparser, content, paths, listing, visited, anchors, jobs, views>>

(* generate_jobs, then generate_views                                      *)
Generate ==
    LET list == [what \in {"job", "view"} |->
                    GeneratedList(roots, what, yamlparser.keep_descriptions)]
    IN  /\ Idle /\ listing = {} /\ paths = << >>
        /\ IF \E what \in DOMAIN list : Fails(list[what])
           THEN outcome' = "cannot generate" /\ UNCHANGED <<jobs, views>>
           ELSE IF /\ ~yamlparser.allow_duplicates
                   /\ \E what \in DOMAIN list : HasDuplicates(list[what])
           THEN outcome' = "duplicate" /\ UNCHANGED <<jobs, views>>
           ELSE /\ jobs' = RemoveDuplicates(list["job"])
                /\ views' = RemoveDuplicates(list["view"])
                /\ outcome' = "generated"
        /\ UNCHANGED <<yamlparser, content, paths, listing, visited, anchors, items, roots>>

Next ==
    \/ NextPath
    \/ \E path \in listing : NextOfDirectory(path)
    \/ AddItem
    \/ Generate

Spec == WellFormed /\ Init /\ [][Next]_vars

-----------------------------------------------------------------------------
(* What the files define.                                                  *)
Defined == UNION {ToSet(content[f].items) : f \in Reached}

(* No definition, or name of defaults, is there twice, in two files or in  *)
(* one.                                                                    *)
DefinedOnce ==
    \A f, g \in Reached : \A i \in DOMAIN content[f].items, j \in DOMAIN content[g].items :
        LET a == content[f].items[i]
            b == content[g].items[j]
        IN  a.kind \in Kinds /\ a.kind = b.kind /\ a.id = b.id => f = g /\ i = j

(* The containers filled without regard to files.                          *)
Together == [kind \in Kinds |-> SetToSeq({d \in Defined : d.kind = kind})]

(* With nothing defined twice, what is generated and whether anything is   *)
(* does not depend on the order in which the files are read, on the file   *)
(* a definition is in or on the names a file is reached by: a template, a  *)
(* group or defaults may come after what uses them.  (The code keeps the   *)
(* dictionaries of Roots in each element and looks names up when it        *)
(* generates; loader.py:86-118, root_base.py:56-71, 241-251.)              *)
OrderIsIrrelevant ==
    LET whole(what) == GeneratedList(Together, what, yamlparser.keep_descriptions)
        sound == \A f \in Reached : /\ content[f].is_list
                                    /\ content[f].aliases \subseteq content[f].anchors
                                    /\ \A i \in DOMAIN content[f].items :
                                           content[f].items[i].kind \in Kinds \cup {"hidden"}
        works == \A what \in {"job", "view"} :
                     /\ ~Fails(whole(what))
                     /\ yamlparser.allow_duplicates \/ ~HasDuplicates(whole(what))
    IN  (outcome # "loading" /\ DefinedOnce /\ ~yamlparser.retain_anchors) =>
            /\ (outcome = "generated") <=> (sound /\ works)
            /\ (outcome = "generated" /\ \A what \in {"job", "view"} : ~HasDuplicates(whole(what))) =>
                   /\ ToSet(jobs) = ToSet(whole("job"))
                   /\ ToSet(views) = ToSet(whole("view"))

(* Of two jobs or views of one name the one generated last is kept, in its *)
(* place, and no name gets lost; without allow_duplicates nothing is       *)
(* dropped at all (roots.py:69-90).                                        *)
LastWins(kept, list) ==
    LET last == {i \in DOMAIN list : \A j \in (i + 1)..Len(list) : list[j].name # list[i].name}
    IN  /\ Len(kept) = Cardinality(last)
        /\ \A i \in last : \E n \in DOMAIN kept :
               kept[n] = list[i] /\ n = Cardinality({j \in last : j <= i})

LastDefinitionWins ==
    outcome = "generated" =>
        LET list(what) == GeneratedList(roots, what, yamlparser.keep_descriptions)
        IN  /\ LastWins(jobs, list("job"))
            /\ LastWins(views, list("view"))
            /\ ~yamlparser.allow_duplicates => jobs = list("job") /\ views = list("view")

-----------------------------------------------------------------------------
(* Where an item of a project comes from: its context names the project,   *)
(* the place in its list, a group and the place in it, and the template.   *)
Project(item) == Get(roots["project"], item.context[1])
Template(item, what) == Get(roots[TemplateOf[what]], Last(item.context))

(* The parameters that are in force for it, the strongest first, in the    *)
(* order the documentation gives (definition.rst, "Variable Inheritance"): *)
(* group, project, template, defaults; what is said with the name in the   *)
(* list is stronger than the rest of the same definition.  The name of a   *)
(* template, and the id if it gives one, are not for others to say.        *)
Levels(item, what) ==
    LET project == Project(item)
        spec == project[what][item.context[2]]
        group == Get(roots[GroupOf[what]], item.context[3])
        template == Template(item, what)
        of_group == IF Len(item.context) = 3 THEN << >>
                    ELSE <<group.specs[item.context[4]].params, group.params>>
        of_defaults(name) == IF Has(roots["defaults"], name)
                             THEN <<Get(roots["defaults"], name).params>> ELSE << >>
        chosen == IF project.defaults # None THEN project.defaults ELSE template.defaults
    IN  <<GivenId(template), Param("template-name", Scalar(template.name.text))>>
        \o of_group
        \o <<spec.params, Param("name", Scalar(project.id)), project.params, template.params>>
        \o of_defaults(chosen) \o of_defaults("global")
        \o <<template.axis_defaults>>

Strongest(levels, name) ==
    LET i == SelectInSeq(levels, LAMBDA ps : name \in DOMAIN ps)
    IN  IF i = 0 THEN << >> ELSE levels[i][name]

InForce(item, what, name) == Strongest(Levels(item, what), name)

(* What the points at which an item stands, one for each of the axes that  *)
(* have values, say of a parameter: those of other axes, and its own.      *)
Said(axes, at, p) ==
    {at[i].also[p] : i \in {k \in DOMAIN at : axes[k] # p /\ p \in DOMAIN at[k].also}}

Own(axes, at, p) ==
    {IF p \in DOMAIN at[i].also THEN at[i].also[p] ELSE Scalar(at[i].is) :
        i \in {k \in DOMAIN at : axes[k] = p}}

(* Each parameter of a generated item has the value of the strongest level *)
(* that gives it one.  The list an axis has from there is for its points:  *)
(* the item stands at one of them, and what a point says of a parameter    *)
(* goes before every level, before the parameter's own point if it is an   *)
(* axis too, and whatever the order of the axes is.                        *)
Prioritised(item, what) ==
    LET axes == Template(item, what).name.axes
        values == [i \in DOMAIN axes |-> ToSet(InForce(item, what, axes[i]))]
        places == {i \in DOMAIN axes : values[i] # {}}
    IN  \E at \in [places -> UNION {values[i] : i \in places}] :
            /\ \A i \in places : at[i] \in values[i]
            /\ \A p \in DOMAIN item.params :
                   IF Said(axes, at, p) # {} THEN item.params[p] \in Said(axes, at, p)
                   ELSE IF Own(axes, at, p) # {} THEN item.params[p] \in Own(axes, at, p)
                   ELSE item.params[p] = InForce(item, what, p)

PriorityOfParameters ==
    outcome = "generated" =>
        /\ \A n \in DOMAIN jobs : Len(jobs[n].context) > 1 => Prioritised(jobs[n], "job")
        /\ \A n \in DOMAIN views : Len(views[n].context) > 1 => Prioritised(views[n], "view")

-----------------------------------------------------------------------------
(* doc/source/execution.rst:66-70: "jenkins-jobs loads files in            *)
(* alphabetical order", so that with retain_anchors a file may refer to    *)
(* the anchors of those before it.  Before(f, g) is that order.            *)
AnchorsOfEarlierFiles(Before(_, _)) ==
    outcome = "undefined alias" /\ yamlparser.retain_anchors =>
        \E f \in Reached :
            ~(content[f].aliases \subseteq
                  UNION {content[g].anchors : g \in {h \in Reached : h = f \/ Before(h, f)}})
=============================================================================
