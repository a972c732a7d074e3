------------------------------ MODULE Components ------------------------------
(***************************************************************************)
(* The components of jobs, as their modules write them, and one definition *)
(* of a component that two jobs share.  The expander copies what it goes   *)
(* through, but "{obj:name}" puts a parameter in as it is, and the         *)
(* parameters of a plain job are those of its defaults: what a component   *)
(* does to its data for the first job is there for the second.             *)
(***************************************************************************)
EXTENDS Naturals, Sequences, FiniteSets, TLC

CONSTANTS
    Inputs,      \* component -> the data it is tried with
    Lists,       \* the elements that may be there more than once
    Unchecked,   \* the elements of options whose values are not checked
    Dead         \* the options, by component, that are documented and not read

scm == INSTANCE Scm
triggers == INSTANCE Triggers
builders == INSTANCE Builders
publishers == INSTANCE Publishers
wrappers == INSTANCE Wrappers
multibranch == INSTANCE Multibranch

VARIABLES
    component,
    loaded,      \* its data, as they were loaded
    shared,      \* the same data now
    written      \* what was written for each of the jobs

vars == <<component, loaded, shared, written>>

Xml(c, d) ==
    CASE c = "git" -> scm!git(d)
      [] c = "svn" -> scm!svn(d)
      [] c = "cvs" -> scm!cvs(d)
      [] c \in {"gerrit", "gerrit (old)"} -> triggers!gerrit(d)
      [] c = "github-pull-request" -> triggers!github_pull_request(d)
      [] c = "gitlab" -> triggers!gitlab(d)
      [] c = "monitor-files" -> triggers!monitor_files(d)
      [] c = "generic-webhook-trigger" -> triggers!generic_webhook_trigger(d)
      [] c = "trigger-builds" -> builders!trigger_builds(d)
      [] c = "conditional-step" -> builders!conditional_step(d)
      [] c = "multijob" -> builders!multijob(d)
      [] c = "saltstack" -> builders!saltstack(d)
      [] c = "cmake" -> builders!cmake(d)
      [] c = "dsl" -> builders!dsl(d)
      [] c = "xcode" -> builders!xcode(d)
      [] c = "ansible-playbook" -> builders!ansible_playbook(d)
      [] c = "xunit (builder)" -> builders!xunit(d)
      [] c = "http-request" -> builders!http_request(d)
      [] c = "shining-panda" -> builders!shining_panda(d)
      [] c \in {"postbuildscript", "postbuildscript (old)"} -> publishers!postbuildscript(d)
      [] c = "conditional-publisher" -> publishers!conditional_publisher(d)
      [] c = "tasks" -> publishers!tasks(d)
      [] c = "warnings" -> publishers!warnings(d)
      [] c = "google-cloud-storage" -> publishers!google_cloud_storage(d)
      [] c = "email-ext" -> publishers!email_ext(d)
      [] c = "checkstyle" -> publishers!checkstyle(d)
      [] c = "slack" -> publishers!slack(d)
      [] c = "plot" -> publishers!plot(d)
      [] c = "cloudfoundry" -> publishers!cloud_foundry(d)
      [] c = "artifactory" -> publishers!artifactory(d)
      [] c = "rocket" -> publishers!rocket(d)
      [] c = "cppcheck" -> publishers!cppcheck(d)
      [] c = "performance" -> publishers!performance(d)
      [] c = "trigger-parameterized-builds" -> publishers!trigger_parameterized_builds(d)
      [] c = "git (publisher)" -> publishers!git(d)
      [] c = "test-fairy" -> publishers!test_fairy(d)
      [] c = "xunit" -> publishers!xunit(d)
      [] c = "cloverphp" -> publishers!cloverphp(d)
      [] c = "cobertura" -> publishers!cobertura(d)
      [] c = "jabber" -> publishers!jabber(d)
      [] c = "ircbot" -> publishers!ircbot(d)
      [] c = "docker-custom-build-env" -> wrappers!docker_custom_build_env(d)
      [] c = "timeout" -> wrappers!timeout(d)
      [] c = "build-keeper" -> wrappers!build_keeper(d)
      [] c = "sauce-ondemand" -> wrappers!sauce_ondemand(d)
      [] c = "credentials-binding" -> wrappers!credentials_binding(d)
      [] c = "artifactory-generic" -> wrappers!artifactory_generic(d)
      [] c = "artifactory-maven-freestyle" -> wrappers!artifactory_maven_freestyle(d)
      [] c = "bitbucket (source)" -> multibranch!bitbucket_scm(d)
      [] c = "gerrit (source)" -> multibranch!gerrit_scm(d)
      [] c = "git (source)" -> multibranch!git_scm(d)
      [] c = "github (source)" -> multibranch!github_scm(d)
      [] c = "github-org" -> multibranch!github_org(d)
      [] c = "multibranch" -> multibranch!multibranch_root_xml(d)
      [] c = "githuborg" -> multibranch!githuborg_root_xml(d)

Changed(c, d) ==
    CASE c = "git" -> scm!git_remotes(d)
      [] c \in {"gerrit", "gerrit (old)"} -> triggers!gerrit_handle_legacy_configuration(d).data
      [] c = "gitlab" -> triggers!gitlab_filter(d)
      [] c = "dsl" -> builders!dsl_targets(d)
      [] c = "checkstyle" -> publishers!convert_settings(d)
      [] OTHER -> d

Init ==
    /\ component \in DOMAIN Inputs
    /\ loaded \in Inputs[component]
    /\ shared = loaded
    /\ written = << >>

Render ==
    /\ Len(written) < 2
    /\ written' = Append(written, Xml(component, shared))
    /\ shared' = Changed(component, shared)
    /\ UNCHANGED <<component, loaded>>

Spec == Init /\ [][Render]_vars

-----------------------------------------------------------------------------
(* The first and the second job get the same XML: what a component does to *)
(* its data on the way does not change what it means.                      *)
RenderedAlike == \A i, j \in DOMAIN written : written[i] = written[j]

(* No two options are written to one element, where Jenkins would read     *)
(* only one of them.                                                       *)
ElementOnce ==
    \A i \in DOMAIN written : \A x, y \in written[i].xml :
        x[1] = y[1] /\ x[2] = y[2] /\ <<x[1], x[2]>> \notin Lists => x[3] = y[3]

(* An option a component knows has an effect: if not with these data, then *)
(* with another choice of the options that decide whether it is read.      *)
Heard == UNION {{<<c, e[3]>> : e \in UNION {Xml(c, d).xml : d \in Inputs[c]}} : c \in DOMAIN Inputs}
HasAnEffect(o) == <<component, o>> \in Heard

(* The documentation of a component lists its options for what they do:    *)
(* each that is given has an effect.                                       *)
EveryOptionHasAnEffect == \A o \in DOMAIN loaded : loaded[o] = o => HasAnEffect(o)

(* Those without one are the ones known, documented under a name that      *)
(* nobody reads, and none else: no option gets lost on the way, neither    *)
(* because its name is misspelled nor because no choice of the others lets *)
(* it through.                                                             *)
OnlyKnownOptionsAreDead ==
    \A o \in DOMAIN loaded : loaded[o] = o => (HasAnEffect(o) <=> <<component, o>> \notin Dead)

(* A value that is not among those an option may have is not written.      *)
WrongChoicesAreRefused ==
    \A i \in DOMAIN written : \A e \in written[i].xml : e[3] = "bad" => <<component, e[2]>> \in Unchecked
==============================================================================
