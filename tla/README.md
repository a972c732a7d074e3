# Verification of Jenkins Job Builder

Jenkins Job Builder (JJB) turns YAML definitions into XML configurations of
Jenkins jobs and views and brings a Jenkins server up to date with them.  This
directory holds TLA+ models of the parts of `jenkins_jobs/` whose correctness
depends on order, concurrency, failure or remembered state, the TLC
configurations that check them, and proofs checked by TLAPS.  Paths below are
relative to `src/jenkins_jobs/` unless they start with `doc/`.

## 1. Inventory of the system

| Component | Source | State | Operations |
|---|---|---|---|
| worker pool | `parallel.py` | two `queue.Queue`, a list of threads, results | `concurrentized`, `Worker.run` |
| MD5 cache | `cache.py` | one YAML file per Jenkins URL, a lock file, `data` in memory | `__init__`, `set`, `clear`, `is_cached`, `has_changed`, `save`, `__del__` |
| JenkinsManager | `builder.py` | the cache, `_jobs`/`_job_list`, `_views`/`_view_list` | `update_*`, `delete_*`, `delete_old_managed_*`, `delete_all_*`, `is_*`, `changed`, `exists` |
| commands | `cli/subcommand/*.py` | options | `execute` of `update`, `delete`, `delete-all`, `test`, `list`, `get-plugins-info` |
| Jenkins server | external | jobs, folders, views | the requests of python-jenkins |
| root elements, generation | `roots.py`, `root_base.py`, `job.py`, `view.py`, `project.py`, `defaults.py` | containers by id | `assign`, `generate_jobs`, `generate_views`, `_remove_duplicates` |
| parameter expansion | `expander.py`, `dimensions.py`, `formatter.py` | `expanded_params`, `deps` during one expansion | `expand_parameters`, `enum_dimensions_params`, `is_point_included` |
| registry and macros | `registry.py`, `macro.py` | handlers, macros, caches of entry points | `dispatch`, `amend_job_dicts`, `dispatch_elements` |
| YAML loading | `loader.py`, `loc_loader.py`, `yaml_objects.py`, `position.py` | visited paths, anchors | `load_files`, `enum_expanded_paths` |
| natural sort | `alphanum.py` | none | `alphanum` |
| configuration | `config.py` | one option table | search of the file, precedence of options |
| XML of components | `xml_config.py`, `modules/*.py` | the data of a component, which some functions change | one function per component, `convert_mapping_to_xml` |
| entry point | `cli/entry.py`, `cli/parser.py`, `utils.py`, `errors.py` | none | argument parsing, messages |

How they interact.  A command builds a `JenkinsManager`, whose constructor
opens (and locks) the cache.  `update` loads and expands the YAML, turns it
into XML and calls `update_jobs`, `update_views` and, with `--delete-old`,
`delete_old_managed_jobs` and `delete_old_managed_views`.  `update_*` filters
by the cache, hands the rest to the worker pool, whose threads share the
manager and send requests to the server, and then records the results.
The cache is saved at the end of each call and once more in its destructor,
which also releases the lock.

What is hard, and what makes each part correct:

- *worker pool*: threads, two queues and marks that share a queue with the work.
  Every element is run once, results come in order, the call returns.
- *cache*: several processes, kills, write errors, a rename that does not
  replace on Windows or that raises for any other reason, a lock with a timeout.  No
  lost update, no torn file, no run that waits for ever.
- *manager*: a sequence of commands whose memory (the cache) and whose object
  (the server) must agree although requests fail, answers get lost and the
  process dies; lists read once and used later; folders.  After an update that
  went well the server holds what the definitions say; nothing is uploaded
  twice; nothing is deleted that should stay.
- *generation*: duplicates, defaults, recursion of parameters and of macros, the
  order of files, lists that several jobs share.  Each accepted set of
  definitions gives one well-defined set of items, however it is spread over
  files, and each parameter has the value of the strongest level that gives it.
- *components*: several hundred functions that read options by name, many of
  which depend on each other.  What a job gets does not depend on the jobs before
  it, no option is without effect but the few that are listed, no two options share an
  element, no wrong choice is written.
- *the rest* is parsing and printing.

`PROJECT.json` lists every component with its status, and the hazards with
their lines.

## 2. Plan

Order of the modules, the most important behaviour first:

1. `ConcurrentMap`, `Parallel` — done, proved.
2. `CacheStore`, `JobCache` — done, proved.
3. `Jenkins`, `JenkinsManager` — done; every property but liveness proved, those
   that need conditions on the command lines and definitions under named ones.
4. `ExpandParameters` — done, proved.
5. `Dimensions`, `Roots`, `Loader` — done: from the files of the command line to
   the list of jobs and views, against references that know nothing of files and
   containers.
6. `Registry`, `Macros` — done: `amend_job_dicts` with Zuul, the dispatch of components
   and macros, against the meaning of macros; what Zuul does is proved.
7. `XmlMapping`, `Helpers`, `Scm`, `Triggers`, `Builders`, `Publishers`, `Wrappers`,
   `Multibranch`, `Components` — the components with conditions of their own are
   done; `notifications`, `parameters` and `properties`, mostly tables, are left.
8. To do if worth it: `OutputLayout` (the files of `test -o`), `Config`
   (search and precedence).

Composition: `Loader` fills the containers of `Roots`, which enumerates the points of
`Dimensions`.  What it generates is the input of `Registry` and the `defs` of
`JenkinsManager`; `ExpandParameters` is the inside of one template instance,
`Components` the inside of one leaf of `Registry`'s dispatch.  `JobCache` implements
the `CacheStore` that `JenkinsManager` is shown to use, and `Parallel` the
`ConcurrentMap` whose behaviour its upload steps follow.

Theorems: the invariants of the worker pool, the cache, the manager and the
expansion of parameters are proved, of the loader that the last definition wins and
that the order of the files does not matter, and of the registry that its calls stay
within their limit, Zuul amends every job once and each job gets what its lists
mean (section 5, which also says what stays model-checked and why).

## 3. Modules and how they correspond to the code

**`ConcurrentMap`** says what `@concurrent` promises: one run per element, in any
order, and the results in the order of the list.

**`Parallel`** is the code that keeps the promise.  The caller's steps are the
statements of `concurrentized` (`RunInline`, `ChoosePoolSize`, `SpawnWorker`,
`FeedTask`, `FeedDone`, `CollectResult`, `JoinWorker`, `Return`), a worker's are
`GetTask` and `FinishTask`.  The queues are sequences.  `calls` is a history
variable: how each run of the function ended.

**`CacheStore`** says what the cache promises: one owner at a time, who reads the
store once, edits a copy and commits it whole.  `Forget` (a save that loses the
store) is allowed only if `mayForget`, a variable that is chosen at the start.

**`JobCache`** has several processes, each with its program counter, its `data` and its
temporary file, one lock and one file.  The variable `osRename`, chosen at the start, is
what `os.rename` may do besides replacing: it "replaces" always, "refuses" where there is a
file (Windows), or "fails" for any reason, on any system.  The handler of `cache.py:126-130`
asks neither for the reason nor for the system: after any `OSError` of the rename it removes
the old file (`RemoveOld`) and renames again.  A kill or a second failure between the two
leaves no file at all, so `mayForget` maps to `osRename # "replaces"`, and `FileStays`
says of the rest that the file only ever vanishes in that handler, while the new content
is complete in the temporary file.  A failed write (`SaveFails`) raises in the program and
is logged in `__del__`.  `Kill` may strike anywhere: the operating system frees the lock.
`read` is a history variable: the content of the file the process last read or wrote.

**`Jenkins`** holds the external server: what a request does to its items.

**`JenkinsManager`** is `builder.py` under the commands.  Its state: the server, the
cache file (`disk`), the cache in memory, where the command is (`at`), the
command line (`run`), the generated items (`defs`), the calls still to make
(`agenda`), the uploads (`tasks`), the names a deletion has left (`left`) and the
lists asked for once (`listed`).  `repeat` and `sent` are history variables.
One definition per method of the manager (`update_jobs`, `update_views`,
`delete_old_managed_jobs`, ... `delete_all_views`) is a disjunction of its steps:

| Action | Code |
|---|---|
| `Begin`, `LoadCache`, `Generate` | a command starts; constructor; `make_jobs_and_views_xml`, confirmation |
| `Filter`, `FilterFails` | `changed` and `exists` over the sorted list, `builder.py:312-332` |
| `Decide` | a worker's `is_job`/`is_view` and its choice of create or reconfigure |
| `Upload`, `UploadFails` | the request |
| `Collect`, `Record`, `SaveUpdated` | the results, in order; the first exception is raised; `cache.save` |
| `ListOld`, `DeleteOld`, `OldDeleted` | `delete_old_managed_*`, item by item |
| `StartDelete`, `Delete`, `SaveDeleted` | `delete_jobs`, `delete_views` |
| `delete_all_jobs`; `ListViews`, `DeleteView`, `ViewsDeleted` | `delete_all_*` |
| `RemoveOldFile` | a rename that raised: the cache file is removed, `cache.py:126-129`; the save then ends, fails or is killed |
| `Exit`, `Unlock`, `Kill` | the destructor of the cache; the death of the process |

Jobs and views go through the same steps with another `kind`; the differences
(folders for jobs only, `job_exists` asked for both, `delete_all`) are in the
steps.

**`ExpandParameters`** is `expand_parameters` of `expander.py`, the recursive function
that expands the parameters of one template instance.  Its stack of calls is
`deps`, as in the code, where a name is in `deps` exactly as long as its call
visits what it uses:

| Action | Code |
|---|---|
| `ExpandNext` | `expand("name")`, then the loop over the other keys, `expander.py:275-277` |
| `ExpandRequired` | the recursive call, for a name that is defined and not expanded (`Enter` tells `template-name`, which is never expanded) |
| `FindRecursion` | a name that is in `deps` already: the exception of line 247 |
| `Fill` | the visits are done: `deps.popitem()`, then the expander; it fails on a name that is undefined and has no default |
| `Return` | every key is done |

The order of the keys of a dictionary and of the names in a value is any order.
A value is the set of names it refers to and those of them with a default; the
expanded value is a record of what it was filled with, so that a value filled too
early can be told from a final one.

**`Dimensions`** is the product of the axes of a template name and the match of a
point against an `exclude` list.  The product of sequences is in the order of
`itertools.product`; a value of an axis may bring other parameters along.

**`Roots`** has the containers as sequences of definitions of different ids (Python
keeps the order of insertion) and one operator per `_generate_items` or
`top_level_generate_items`: what a job, template, group and project makes of the
parameters it is given, in the order in which the code merges them.  After all merges a
template's own `id` and name are put over what any level gave for them (`GivenId` and the
name in `TemplateParams`, `root_base.py:134-140`).  `Shaped` says what the constructors
guarantee of a definition: axes, specs and values are lists.

**`Loader`** is the state machine around it.  `NextPath` and `NextOfDirectory` are the
generator `enum_expanded_paths` (a directory's entries come in any order, a path
that leads to a visited file is skipped), `LoadFile` the YAML loader with the anchors
it keeps, `AddItem` the loop over a file's definitions with `ElementParser` and the
containers' `assign`, `Generate` is `generate_jobs` and `generate_views` with
`_remove_duplicates`.

**`Registry`** is `generateXML` before there is XML: `AmendJob` and `EndPass` are
`amend_job_dicts`, `StartList`, `DispatchNext` and `ReturnFromDispatch` the
recursive `dispatch` with its stack of calls.  A list of components is an object
with an identity, because Zuul changes it in place.  Python's recursion limit is
`MaxDepth`.  How an element of a macro is expanded is a parameter, the constants
`References` and `Expand`: components hold components, so that the definitions are
recursive.  They are those of **`Macros`** (`ReferencesIn`, `Expanded`), together with
`Circular`, which says when macros call each other in a circle.  What a list of a job
stands for is told without calls: `Unfolded` gives the parts each part is replaced by, a
macro by its elements, another component by itself and the steps in it, and
`Meaning` replaces all parts at once, as often as calls may be nested.

**The components.**  `XmlMapping` has the forms in which the functions of `modules/`
are written: an optional, required, restricted or switched option, an exception,
and `a (+) b`, which does b after a unless a raised.  The others hold one
definition per component function, named like it, in a module per file of
`modules/` (`Helpers` for `helpers.py`, `Multibranch` for
`project_multibranch.py` and `project_githuborg.py`).  `Components` renders one
piece of data twice, for two jobs that share it, and applies in between what the
function does to its data.  What is kept of the data: which options are given,
the value of those a condition reads, "bad" for a value outside the ones allowed, the
version of the plugin.  An option nobody compares has its own name for a value, so that
the place it is written to can be told.  A list has one entry; elements that hold a
constant are left out, except where the presence of one is what an option does.

The MC modules give the constants their values.  Definitions whose comment starts
with "Mutant of" are plausible bugs of the definition that follows; they are
used by no specification and serve to show that a property can fail.

## 4. What the runs check

| Run | Question | Distinct states |
|---|---|---|
| `parallel` | lists of 0 to 3, pools of 1 to 3, runs that raise: each element once, in order, no thread left, the call returns, refines `ConcurrentMap` | 6 809 |
| `jobcache` | 3 processes, 2 names, 2 digests, renames that replace, refuse or fail: exclusion, no lost update, file whole, gone only after a rename that raised, no run waits for ever, refines `CacheStore` | 28 176 |
| `manager` | two jobs, one view, eight command lines with all options, no faults: `CacheSound`, `UpToDate`, `RepeatUploadsNothing`, `ExistingOnlyCreatesNoJob` | 193 825 |
| `manager_faults` | every fault at every step: `CacheNeverInvents`, `EveryCommandEnds`, refines `CacheStore` | 479 624 |
| `manager_forward` | every fault, definitions that never go back: `UpToDate` | 253 594 |
| `manager_folders` | a folder, a job in it, a job outside, `--delete-old`, one worker: `NeverFails`, `OldOnlyObsolete` | 83 538 |
| `parameters` | four parameters that use each other in any way, in any order: `Verdict`, `FilledWithFinalValues`, `EveryExpansionEnds` | 419 394 |
| `loading` | two files of a directory, a link, standard input, all options, all kinds of definitions: `OrderIsIrrelevant`, `LastDefinitionWins`, `PriorityOfParameters` | 91 258 |
| `registry` | macros that call and hide each other, jobs with Zuul's triggers: `WrittenInFull`, `RecursionOnlyInCircles`, `ZuulAmendedOnce`, `EveryRunEnds` | 238 936 |
| `components` | 56 entries of `Inputs` (a component, or one of its old forms), every pair of the options their conditions read: `RenderedAlike`, `ElementOnce`, `OnlyKnownOptionsAreDead`, `WrongChoicesAreRefused` | 113 457 |

Runs that end in a violation, each a disagreement between the code and its
documentation (details in `PROJECT.json`, "findings"):

| Run | Violated | Why |
|---|---|---|
| `manager_old_cache` | `UpToDate` | `--delete-old` leaves the cache entry of what it deletes |
| `components_shared` | `RenderedAlike` | `gerrit` adds the events of the old form to data that another job may share, which then is a mixture of both forms and refused |

### Limits of the properties that hold

The passing runs leave out, by their constants and not by another model, the
situations in which a property does not hold.  A configuration beside them brings
each one back and ends in a violation:

| Configuration | Violated | Why |
|---|---|---|
| `MCJenkinsManagerClash` | `RepeatUploadsNothing` | a job and a view of one name share one cache entry (`builder.py:250`) |
| `MCJenkinsManagerRevert` | `UpToDate` | uploads that went well after the first exception are not recorded (`builder.py:339-346`), so a definition that goes back to an earlier content is taken for uploaded |
| `MCJenkinsManagerEnabledOld` | `OldOnlyObsolete` | `--enabled-only` shrinks the list of jobs to keep |
| `MCJenkinsManagerExistingViews` | `UpToDate` | `--existing-only` asks for jobs when it filters views (`builder.py:503`) |
| `MCLoaderOrder` | `FilesInAlphabeticalOrder` | with `retain_anchors` a file of a directory may be read before the one it takes an anchor from, since `iterdir()` has no order, while `doc/source/execution.rst:66-70` promises the alphabetical one |
| `MCComponentsDead` | `EveryOptionHasAnEffect` | some options are documented and nobody reads them: the constant `Dead`, below |
| `MCRegistryShared` | `ZuulAmendedOnce` | of two jobs that share a list of triggers, the second finds it emptied by the first and gets no parameters (`modules/zuul.py:196`) |

(`tlc -config <name>.cfg <module>`, where the module is `MCJenkinsManager`, `MCLoader`,
`MCComponents` or `MCRegistry`.)  Three more situations break a property and are left out of
`manager_folders` in the same way:

- two workers and a folder: a job may be sent before its folder is there
  (`builder.py:332`), which breaks `NeverFails`;
- an obsolete folder with a job that is not obsolete in it, which goes with the
  folder (`builder.py:217`), against `OldOnlyObsolete`; the folder and what is in
  it come and go together there;
- `delete` of a folder, which keeps the cache entries of the jobs in it
  (`builder.py:232`), against `UpToDate`.

`components` names its exceptions in three constants.  `Lists` has the elements that
may be there more than once, such as the event `gerrit` knows by an old name too, and with
them the one that is a mistake: `slack` writes `auth-token-id` and
`auth-token-credential-id` to one element (`modules/publishers.py:7711`, `7736`).
`Unchecked` has the options whose list of values
the code never looks at, since `convert_mapping_to_xml` takes only a list for one
and not a tuple or a range (`multijob`, the build cause of `conditional-step`,
`gitlab` for an old plugin), or whose exception is made and not raised (`timeout`,
`modules/wrappers.py:354`).  `Dead` has the options that are documented and that nothing
reads.  `OnlyKnownOptionsAreDead` says that these and no others are without effect:

- `condition-basedir` of `conditional-publisher` (`modules/publishers.py:6620`): the code asks
  for an option `%s-basedir` that nobody can give (line 6701);
- `plugin-timeout` of `cloudfoundry` (`modules/publishers.py:693`), which is read as `timeout`
  (line 759);
- `include-env-vars`, `release-repo-key` and `snapshot-repo-key` of
  `artifactory-maven-freestyle` (`modules/wrappers.py:2664-2672`), which are read as
  `env-vars-include`, `deploy-release-repo-key` and `deploy-snapshot-repo-key`
  (`modules/helpers.py:354`, `415-424`);
- `suppress-strategy` of the property strategies of `bitbucket` and `gerrit`
  (`modules/project_multibranch.py:1470`), which is read as `suppression-strategy`
  (line 1798);
- `skip-notifications` of `git` (`modules/scm.py:312`): documented for the component and read
  only when a source of a multibranch project writes it (lines 668-671).

`MCComponentsDead` states what the documentation of the first four says, that each option
has an effect.  The last is left out of it: `git` and the sources share the text.

Other disagreements and slips met while the components were modelled; the
definitions do what the code does:

- an unknown event of `gerrit` raises TypeError instead of its message, `keys()` has no
  `+` (`modules/triggers.py:179-182`); so do the wrong `execute-on` of `postbuildscript`,
  whose message is formatted without its value (`modules/publishers.py:4517-4519`,
  `4673-4675`);
- a wrong `on-evaluation-failure` of `conditional-step` is a KeyError
  (`modules/builders.py:1825`), a wrong `workspaceupdater` of `svn` an unbound variable
  (`modules/scm.py:1169-1179`);
- `remove-stale-nested-repos` of `git` writes true whatever its value
  (`modules/scm.py:546-548`, `567-569`);
- in `conditional-publisher` the best result of `current-status` takes `completeBuild` from
  the worst (`modules/publishers.py:6687`);
- `elif kind == "and" or "or"` is always true: an unknown kind of condition is an "or"
  (`modules/builders.py:1771`);
- the check that `slack` has a custom message asks `data is False`, which it never is
  (`modules/publishers.py:7772`);
- a job hides a template with its id, so that a project that names the template generates
  nothing, without a word; of two `defaults` with one name the
  later replaces the earlier, also without `allow_duplicates`.

A pool size of one still means a pool of one thread (`parallel.py:117`); the
docstring (lines 81-84) says it means no pool.  The result is the same, so no
property of the runs is about it.

### Bounds

- Three elements on up to three threads give every way a worker can be early,
  late or idle with respect to another; further elements repeat them.
- Two processes suffice for a race on the file and three for a process that waits
  while the lock changes hands between two others.  Two names with two digests
  tell a partial content from a whole one and an update from a lost one.
- Two jobs and a view under two configurations: two uploads of a kind at once, of
  which one may fail and the other not, and a view that shares nothing with
  them.  With a folder: the folder, a job in it, one outside.
- Four parameters, one of which is `name` and one `template-name`: circles of one,
  two and three, values that are used twice, chains of three and a circle that
  is reached from outside it; each may be undefined and each use may have a
  default or not.
- `loading`: six definitions that may each be in one of two files or in none, around a
  fixed core that uses them (a group, a project with a group, one with a
  template and a job, templates with one and two axes, defaults global and named);
  two entries of a directory in both orders and one of them again through a link.
  Definitions of one id appear in the second file and in the standard input, so that
  each kind of duplicate happens.  Templates have an `id` of their own, and a group's
  entry and a project give one as a parameter too.
- `registry`: two macros with up to two elements each, which may call themselves or
  each other, directly and in the steps of another component, and one that may
  hide a function; parameters given at each of the four levels or not.  A limit of six
  nested calls is more than any nesting of these macros without a circle needs.
  Two jobs with every list of Zuul's triggers.
- `components`: the functions have conditions on one or two options, so a pair of them at a
  time, with none or all of the other options, takes every branch; each of the
  other options also comes alone with each value of one condition; each option that is
  always given is also missed once.  What several sources of multibranch projects share is
  tried with one or some of them: the build strategies with `git`, the properties of all
  branches and the choices of `git`'s extensions with `gerrit`, the properties of named
  branches with `bitbucket`, the filters with the three that have some; only the parts of
  the extensions come with every source.
- Nothing else is cut: sequences of commands are unbounded, the state is finite
  because the history variables are.

### Fairness

`Parallel` and `JobCache`: weak fairness of each thread's or process's next step:
the operating system runs what can run.  Nothing is assumed of kills and
failures.  In `JobCache` a process that waits for the lock is either given it
or gives up after its timeout, which is one of its own steps.
`JenkinsManager`: weak fairness of `Working`, that is, a command that was started
goes on; `Begin` (a user) and `Kill` are not fair.
`ExpandParameters`: weak fairness of `Step`, a sequential program that runs;
`Registry`: of `Next`, for the same reason.  `Loader` and `Components` state no fairness, for
their properties are invariants.  They and `Registry` end, so that their configurations
do not check for deadlock.

### Assumptions of the models

- The decorated function raises only `Exception` (others are not caught by
  `Worker.run` and would leave the caller waiting).
- One command of `JenkinsManager` at a time: the lock, `JobCache.OneHolder`.
- Only JJB changes the server while a command runs.  (A job changed by hand is
  outside what JJB promises, `doc/source/execution.rst:195-197`.)
- Different configurations have different MD5 sums.
- A save is one step in `JenkinsManager`; `JobCache` refines `CacheStore`, where
  it is one step too.
- The first fill of `_job_list` by several workers is one step: each would compute
  a set from the server, and a name that is missing is asked for live.
- The names a value refers to are known before it is expanded
  (`enum_required_params`), whatever the syntax; a value of a type that has no such
  enumeration is not modelled.
- Views are those of the top level.  `delete_all_views` spares the view the server
  lists first, which may be any.
- A definition of `Loader` is what its YAML says, already split into parameters and
  contents; a file that sets one anchor twice is outside the model.
- The standard input is given at most once, and no path leads to it: the command line
  replaces a single `-` by it (`cli/entry.py:116-130`).
- Macros are definitions of `Registry` only: `Loader` leaves out the elements that add them.
- The options of a component are those its function or its documentation names, those in
  `Dead` included; of an option that is asked for and not documented, such as
  `condition-aggregation` and what belongs to it, the inputs are what the code reads.
- A failing upload of a list with a single element raises directly in the caller;
  the model raises it when the result is read, with the same effect.

## 5. What is proved

TLAPS proves for every value of the constants:

- `ParallelProofs`: `TypeCorrect`, `ExactlyOnce`, `TasksBeforeDone`,
  `OrderedReturn` and `Refinement` (every behaviour is one of `ConcurrentMap`).
  The inductive invariant counts: what was fed is what is queued, running,
  answered and collected; a "done" in the queue has only "done" behind it; the
  number of marks left is the number of workers that have not ended.
- `JobCacheProofs`: `TypeCorrect`, `MutualExclusion`, `LostUpdateFree`,
  `NeverTorn`, `NeverVanishes`, `Refinement`.  The invariant ties the lock to the
  program counter of its holder, the file to what the holder has read, and the
  temporary file to the holder's data.  `NeverVanishes` is not that the file stays, which
  the handler of a failed rename does not give on any system, but that only this handler
  removes it, and only with the new content written out beside it; where renames
  replace, it stays for good.
- `JenkinsManagerProofs`: `TypeCorrect`, `CacheHonest`, `ExistingOnly`, `Refinement`,
  `RepeatSendsNothing` and `OldIsObsolete`.  `CacheNeverInvents` is not inductive: the
  invariant adds that the cache in memory is honest too, that an upload that is "done"
  was taken by the server, and that what is uploaded was generated.  `ExistingOnly` needs that no
  job the filter saw goes away before the last upload (`SeenJobsStay`).
  `OldIsObsolete` holds with every fault and kill, `RepeatSendsNothing` with every one but a
  rename that raises: the destructor saves once more after the command went well, and may
  then lose the file (`RemoveOldFile`).  Both are
  about a whole command, so the invariant has to know where the command is: `AgendaOfRun`
  says that what is left of the agenda is a part of the command's calls in their order,
  jobs before views, updates before deletions.  On it rest
  `RecordedSoFar` (what an update has gone through is in the cache, and in the file
  once it went well) and `RecordedBefore` (the same update again finds it there).
- `JenkinsManagerServerProofs`: `NothingFails`, `CacheIsSound`, `UpToDateWithoutFaults` and
  `UpToDateForward`.  `NothingFails` needs `SmoothRun`: the lists asked for once still hold
  while they are relied on, and what a worker saw of the server stays so until its
  upload, for folders because only one item is under way.  `CacheIsSound` needs
  `CacheIsRight`, which says when the cache may be behind the server: for what was
  uploaded and not recorded yet, and for what `delete-all` is about to forget.
  `UpToDateForward` holds with every fault because an upload that was not recorded
  leaves a digest in the cache that no later definition has (`SentInOrder`).
- `LoaderProofs`: `LastDefinition`, `OrderDoesNotMatter` and `ParametersByPriority`, for
  every command line, all files and every order of a directory.
  The core of the first are lemmas about the pure part: `LastOfEachIsKept` and
  `NothingToRemove` on `_remove_duplicates`, and `GeneratedIsList`, that what is generated
  from containers of well-formed definitions is a list at all; the invariant
  (`RootsAreShaped`) carries the shape of the files into the containers.
  The second compares the containers of a run with those filled with all definitions at
  once.  A list `Embeds` in another if each of its places has one of its own there with the
  same element.  What is found under an id does not change when a dictionary is put in
  another order (`SameLookup`), and so, definition by definition through templates,
  groups and projects, what is generated from the one embeds in what is generated
  from the other, in both directions (`SameGenerated`): the same items, as often, hence
  the same failures, duplicates and sets.  The invariant (`OrderInv`) says that every file was
  read or will be, and that the containers hold what the files that were read define, but
  for the elements of the last one that are left.
  The third has no side condition: any levels may give any parameter, `id` and
  `template-name` too, over which the template's own come first (`GivenId`), an axis may have any
  points, two of them with one value too, and a point may say a value of any parameter,
  its own axis included.  An item carries only its context, three or four
  names and places, so the first half of the proof goes down from what was generated to the
  project, the place in its list, the group and the template that the context names
  (`GeneratedItem`); that this is the project the property looks up needs that no two
  have one id, which the invariant (`PriorityInv`) says, as it says that what was generated
  comes from the containers as they still are.  The second half goes up: what is
  merged over a dictionary goes before it (`MergeElse`), so what a template gets is what the
  levels say, the strongest first (`LevelsInForce`); and what `DimensionsExpander` merges over
  that is one point of each axis, what it says of others last (`PointSays`,
  `TemplatePriority`).
- `RegistryProofs`: `TypeCorrect`, `ZuulOnce` and `WrittenOut`, for any jobs, macros,
  triggers and parameters of Zuul, and whatever `References` and `Expand` are, as long as
  expansion gives components.  `ZuulAmendedOnce`
  compares a list of parameters with how it was loaded, so the invariant
  (`AmendInv`) says that each job is as it was loaded or amended once, that a pass which has
  changed nothing so far has gone over jobs without a trigger of Zuul, and that none has one
  when amending is over.  It is inductive because a job that was amended has no trigger
  left (`NoZuulLeft`, on `remove`) and its lists are no other job's; what the extended
  list holds is counted by `OccurrencesAdded`.
  `WrittenOut` is about two orders of one work: `dispatch` goes depth first with a stack,
  `Meaning` unfolds all parts of a list level by level.  The invariant (`WritingInv`) says
  that what is written for the job at hand, followed by what the calls still owe
  (`Owing`: the elements left of each call, the innermost first, each list unfolded as
  often as there may be calls in it), is what the lists started so far stand for.  A macro
  that is dispatched owes what its element owed (`MacroWrites`, with `AllParameters` for the
  parameters), a function moves its element from what is owed to what is written
  (`FunctionWrites`).  It holds because unfolding goes through the parts of a list
  independently (`UnfoldingConcat`), leaves alone what is written (`UnfoldingStays`), and
  may be begun by the first element alone (`FirstUnfolds`).
- `SequenceLemmas`: what the others use of folds, first and last elements and flattened
  sequences.  An induction over a list is one over the set of its places there:
  `LeastElement` follows from the well-foundedness of strict inclusion among finite sets, and
  `Induction` and `FromTheEnd` from it.

- `ExpandParametersProofs`: `TypeCorrect`, `RightVerdict`, `RightValues`.  The invariant
  says that `deps` is a path of uses on which no name occurs twice, that what is
  expanded uses only what is expanded and lacks nothing, and that among the
  expanded names no non-empty set has all its members use a member of it.  A name
  found again in `deps` therefore closes a circle; and because what is added uses
  only earlier names, no circle can have been completed and no value changes
  after it was filled.

Some properties do not hold for every command line or every job ("Limits", in
section 4).  Their theorems assume the condition by name; the module of the property
defines each with the reason.  The `ASSUME` of `MCJenkinsManager` lets TLC find that the
commands and definitions of the runs meet it; those of `Registry` are about the jobs of a
state, and `ZuulAmendedOnce` is checked without them on jobs that meet them.

| Theorem | Under |
|---|---|
| `RepeatSendsNothing` | `OneKindPerName`, `RenamesReplace` |
| `OldIsObsolete` | `OldOfEverything`, `FoldersAreDefined`, `OnlyManagedInFolders` |
| `NothingFails` | no faults, `FoldersFirst`, `NothingDeletedTwice` |
| `CacheIsSound` | no fault but in the definitions, `FoldersFirst`, `FoldersStay`, `NothingOldDeleted` |
| `UpToDateWithoutFaults` | the same with `OneKindPerName`, `ExistingOnlyForJobs` |
| `UpToDateForward` | `Forward`, `OnlyUpdates`, `OneKindPerName`, `NothingOldDeleted`, `ExistingOnlyForJobs` |
| `ZuulOnce` | `OwnLists`, `TriggersOnce` |

Each condition excludes one of the situations in which the property fails: a name for two
kinds, a rename that raises in the destructor, `--delete-old` with a filter, an obsolete
folder around what is not, parallel uploads of a folder and its jobs, entries of the cache
that a deletion leaves behind, a definition that goes back, a list that two jobs share, a
trigger of Zuul that is given twice (each pass removes one and adds the parameters again).

The other assumptions are the `ASSUME`s of the modules: sentinels are none of the
values, sizes are natural numbers, command lines and definitions have their types,
`Rank` is injective, the parameters a trigger of Zuul brings are different ones, the
steps in a component and its expansion are components again.  TLC evaluates them in
every run.  Of the files, `Spec` of `Loader` assumes what the YAML loader and the
constructors see to (`WellFormed`), `Spec` of `Registry` that the elements of macros and
the lists of jobs are lists of components, of types the modules have.

Only model-checked:

- liveness (`EveryCallReturns`, `EveryRunEnds` of `JobCache` and of `Registry`,
  `EveryCommandEnds`, `EveryExpansionEnds`), which is out of the prover's reach here;
- `RecursionOnlyInCircles` of `Macros`, whose reference is made of recursive operators on
  components in components; it also holds only where `MaxDepth` is above what the macros at
  hand need;
- those of `Components`, each of which is a statement about a finite table.

## 6. What is not modelled

- What the formatter and Jinja2 make of a value, the tags that include other files
  (`yaml_objects.py`), positions for messages: the text of values is abstract everywhere.
- The loading of entry points and the parsing of plugin lists (`registry.py`).
- The components not named in `Components`: of some six hundred, the ones modelled are
  those with the most conditions, which is where the properties could fail; the others are
  mostly one table each, handed to `convert_mapping_to_xml`.  The files
  `modules/parameters.py`, `modules/properties.py`, `modules/reporters.py`,
  `modules/hudson_model.py` and the smaller projects are in none of the modules, nor is
  `modules/hipchat_notif.py`, which at its lines 131-137 writes an old option into
  the data it is given under the new name, the one it reads from.
- The writing of the tree as text, the branches of `update_*` for `test`, `list` and
  `get-plugins-info`, argument parsing, the search for a configuration file, the
  comparison of `alphanum.py` (the constant `Rank` of `JenkinsManager`).

The reasons are with each component in `PROJECT.json`, "components", the hazards
that no property covers in "hazards", each with its note.
