------------------------------ MODULE Multibranch ------------------------------
(***************************************************************************)
(* Projects of many branches: jenkins_jobs/modules/project_multibranch.py  *)
(* and project_githuborg.py.  The data of a source is its own, without the *)
(* name of the source; so are those of github-org, whose build strategies  *)
(* are with the options of the project that writes them.  Of the build     *)
(* strategies that hold others one level is modelled.                      *)
(***************************************************************************)
EXTENDS XmlMapping

scm == INSTANCE Scm

-----------------------------------------------------------------------------
(* Properties of branches: of all of them, of the ones without a name of   *)
(* their own, or of one of the exceptions.                                 *)
apply_property_strategies(at, d, p) ==
    LET opt(o) == p \o "/" \o o
        element(e, mapping) == Optional(at \o "/" \o e, d, {<<opt(m[1]), m[2]>> : m \in mapping})
        refused(o) == RefuseIf(Is(d, opt(o), "bad"))
        suppressed == {opt("suppress-scm-triggering/branch-regex"), opt("suppress-scm-triggering/suppression-strategy")}
        comment == "trigger-build-on-pr-comment"
    IN  RefuseIf(AnyOf(d, suppressed) /\ Absent(d, suppressed))
        (+) refused("suppress-scm-triggering/suppression-strategy")
        (+) element("NoTriggerBranchProperty", {<<"suppress-scm-triggering/branch-regex", "triggeredBranchesRegex">>,
                                                <<"suppress-scm-triggering/suppression-strategy", "strategy">>})
        (+) refused("suppress-scm-triggering")
        (+) refused("pipeline-branch-durability-override")
        (+) element("DurabilityHintBranchProperty", {<<"pipeline-branch-durability-override", "hint">>})
        (+) RefuseIf(Given(d, opt(comment \o "/allow-untrusted-users")) /\ ~Given(d, opt(comment \o "/comment")))
        (+) RefuseIf(IsOneOf(d, opt(comment), {"true", "false"}))
        (+) When(Is(d, opt(comment), "text"), element("TriggerPRCommentBranchProperty", {<<comment, "commentBody">>}))
        (+) element("TriggerPRCommentBranchProperty", {<<comment \o "/comment", "commentBody">>})
        (+) Switch(at \o "/TriggerPRCommentBranchProperty", d, {<<opt(comment \o "/allow-untrusted-users"), "allowUntrusted">>})
        (+) refused("trigger-build-on-pr-review") (+) refused("trigger-build-on-pr-update")
        (+) Switch(at \o "/TriggerPRReviewBranchProperty", d,
                   {<<opt("trigger-build-on-pr-review/allow-untrusted-users"), "allowUntrusted">>})
        (+) Switch(at \o "/TriggerPRUpdateBranchProperty", d,
                   {<<opt("trigger-build-on-pr-update/allow-untrusted-users"), "allowUntrusted">>})

named_branches(d) ==
    LET named(o) == "property-strategies/named-branches/" \o o
    IN  apply_property_strategies("defaultProperties/a", d, named("defaults"))
        (+) Optional("namedExceptions/a/Named", d, {<<named("exceptions/branch-name"), "name">>})
        (+) apply_property_strategies("props/a", d, named("exceptions/properties"))

property_strategies(d) ==
    LET opt(o) == "property-strategies/" \o o
    IN  RefuseIf(Given(d, opt("bad")))
        (+) RefuseIf(Given(d, opt("all-branches")) /\ Given(d, opt("named-branches")))
        (+) apply_property_strategies("properties/a", d, opt("all-branches"))
        (+) named_branches(d)

-----------------------------------------------------------------------------
(* What of a branch or a tag is built.                                     *)
build_strategy(at, d, p) ==
    LET opt(o) == p \o "/" \o o
        named(o) == opt("named-branches/" \o o)
        when_given(list, parent, mapping) == When(Given(d, list), Xml(at \o "/" \o parent, d, mapping))
        filter(list, element, mapping) ==
            when_given(named(list), "NamedBranchBuildStrategyImpl/filters/" \o element,
                       {<<named(list \o "/" \o m[1]), m[2]>> : m \in mapping})
    IN  when_given(opt("tags"), "TagBuildStrategyImpl", {<<opt("tags/ignore-tags-newer-than"), "atLeastMillis">>,
                                                   <<opt("tags/ignore-tags-older-than"), "atMostMillis">>})
        (+) Switch(at, d, {<<opt("regular-branches"), "BranchBuildStrategyImpl">>,
                           <<opt("skip-initial-build"), "SkipInitialBuildOnFirstBranchIndexing">>})
        (+) when_given(opt("change-request"), "ChangeRequestBuildStrategyImpl",
                       {<<opt("change-request/ignore-target-only-changes"), "ignoreTargetOnlyChanges">>})
        (+) filter("exact-name", "ExactNameFilter", {<<"name", "name">>, <<"case-sensitive", "caseSensitive">>})
        (+) filter("regex-name", "RegexNameFilter", {<<"regex", "regex">>, <<"case-sensitive", "caseSensitive">>})
        (+) filter("wildcards-name", "WildcardsNameFilter", {<<"includes", "includes">>, <<"excludes", "excludes">>})
        (+) When(Given(d, opt("raw")), Lookup(d, {opt("raw/xml")}) (+) Xml(at, d, {<<opt("raw/xml"), "xml">>}))

build_strategies(d) ==
    LET nested(o, element) ==
            When(Given(d, "build-strategies/" \o o),
                 Lookup(d, {"build-strategies/" \o o \o "/strategies"})
                 (+) build_strategy(element \o "/strategies", d, "build-strategies/" \o o \o "/strategies"))
    IN  When(Given(d, "build-strategies"),
             nested("all-strategies-match", "AllBranchBuildStrategyImpl")
             (+) nested("any-strategies-match", "AnyBranchBuildStrategyImpl")
             (+) build_strategy("buildStrategies", d, "build-strategies"))

-----------------------------------------------------------------------------
(* Traits that several sources have.                                       *)
add_filter_branch_pr_behaviors(d) ==
    LET regex(o, element) ==
            When(AnyOf(d, {o \o "/branch-regexp", o \o "/tag-regexp"}),
                 Xml(element, d, {<<o \o "/branch-regexp", "regex">>, <<o \o "/tag-regexp", "tagRegex">>}))
        parts == {<<"/branch-includes", "includes">>, <<"/branch-excludes", "excludes">>,
                  <<"/tag-includes", "tagIncludes">>, <<"/tag-excludes", "tagExcludes">>}
        wildcard(o, element) == When(AnyOf(d, {o \o m[1] : m \in parts}), Xml(element, d, {<<o \o m[1], m[2]>> : m \in parts}))
    IN  regex("head-pr-filter-behaviors/head-pr-destined-regex", "RegexSCMHeadFilter")
        (+) wildcard("head-pr-filter-behaviors/head-pr-destined-wildcard", "WildcardSCMHeadFilter")
        (+) regex("head-pr-filter-behaviors/head-pr-originated-regex", "RegexSCMOriginFilter")
        (+) wildcard("head-pr-filter-behaviors/head-pr-originated-wildcard", "WildcardSCMOriginFilter")

add_filter_by_name_wildcard_behaviors(d) ==
    LET opt(o) == "filter-by-name-wildcard/" \o o
    IN  When(AnyOf(d, {opt("includes"), opt("excludes")}),
             Xml("WildcardSCMHeadFilter", d, {<<opt("includes"), "includes">>, <<opt("excludes"), "excludes">>}))

(* The context is a text, or a label and whether it has a suffix.          *)
add_notification_context_trait(d) ==
    LET opt(o) == "notification-context/" \o o
    IN  When(Is(d, "notification-context", "text"), Xml("NotificationContext", d, {<<"notification-context", "contextLabel">>}))
        (+) When(AnyOf(d, {opt("label"), opt("suffix")}),
                 Xml("NotificationContext", d, {<<opt("label"), "contextLabel">>, <<opt("suffix"), "typeSuffix">>}))

add_github_checks_traits(d) ==
    LET opt(o) == "status-checks/" \o o
        checks == {<<"skip", "skip">>, <<"skip-branch-source-notifications", "skipNotifications">>,
                   <<"publish-unstable-as-neutral", "unstableBuildNeutral">>, <<"name", "name">>,
                   <<"suppress-log-output", "suppressLogs">>, <<"suppress-progress-updates", "skipProgressUpdates">>}
    IN  Switch("GitHubSCMSourceChecks", d, {<<opt("verbose-logs"), "verboseConsoleLog">>})
        (+) When(AnyOf(d, {opt(m[1]) : m \in checks} \cup {opt("verbose-logs")}),
                 Xml("GitHubSCMSourceStatusChecks", d, {<<opt(m[1]), m[2]>> : m \in checks}))

refspecs(d) == Optional("RefSpecTemplate", d, {<<"refspecs", "value">>})
head_filter(d) == Optional("RegexSCMHeadFilter", d, {<<"head-filter-regex", "regex">>})

-----------------------------------------------------------------------------
bitbucket_discovery(d) ==
    LET strategy(o, element) == When(Given(d, o), Choice(element, d, {<<o, "strategyId">>}))
    IN  strategy("discover-pr-origin", "OriginPullRequestDiscovery")
        (+) strategy("discover-pr-forks-strategy", "ForkPullRequestDiscovery")
        (+) When(Given(d, "discover-pr-forks-strategy"),
                 Choice("ForkPullRequestDiscovery", d, {<<"discover-pr-forks-trust", "trust">>}))
        (+) strategy("discover-branch", "BranchDiscovery")

bitbucket_scm(d) ==
    Required("source", d, {<<"repo-owner", "repoOwner">>, <<"repo", "repository">>})
    (+) Xml("source", d, {<<"repo-owner", "id">>, <<"repo", "id">>})
    (+) Optional("source", d, {<<"credentials-id", "credentialsId">>, <<"server-url", "serverUrl">>})
    (+) refspecs(d)
    (+) Switch("traits", d, {<<"discover-tags", "TagDiscovery">>, <<"lfs", "GitLFSPull">>})
    (+) head_filter(d) (+) add_filter_branch_pr_behaviors(d) (+) bitbucket_discovery(d)
    (+) property_strategies(d) (+) build_strategies(d)
    (+) Switch("traits", d, {<<"local-branch", "LocalBranch">>})
    (+) Optional("SSHCheckout", d, {<<"checkout-over-ssh/credentials", "credentialsId">>})
    (+) add_filter_by_name_wildcard_behaviors(d)
    (+) scm!git_extensions("traits", d)

gerrit_scm(d) ==
    Required("source", d, {<<"url", "remote">>, <<"url", "id">>})
    (+) Xml("source", d, {<<"credentials-id", "credentialsId">>, <<"includes", "includes">>, <<"excludes", "excludes">>,
                          <<"ignore-on-push-notifications", "ignoreOnPushNotifications">>})
    (+) Optional("source", d, {<<"api-uri", "apiUri">>})
    (+) Optional("ChangeDiscovery", d, {<<"change-discovery/query-string", "queryString">>})
    (+) Xml("RefSpecTemplate", d, {<<"refspecs", "value">>})
    (+) property_strategies(d) (+) build_strategies(d) (+) head_filter(d)
    (+) When(AnyOf(d, {"filter-checks/query-operator", "filter-checks/query-string"}),
             Required("FilterChecks", d, {<<"filter-checks/query-operator", "queryOperator">>,
                                          <<"filter-checks/query-string", "queryString">>}))
    (+) scm!git_extensions("traits", d)

git_scm(d) ==
    Required("source", d, {<<"url", "remote">>, <<"url", "id">>})
    (+) Xml("source", d, {<<"credentials-id", "credentialsId">>})
    (+) When(~Off(d, "discover-branches"), Xml("traits", d, {<<"discover-branches", "BranchDiscovery">>}))
    (+) Switch("traits", d, {<<"discover-tags", "TagDiscovery">>,
                             <<"ignore-on-push-notifications", "IgnoreOnPushNotification">>})
    (+) head_filter(d) (+) add_filter_branch_pr_behaviors(d) (+) property_strategies(d) (+) build_strategies(d)
    (+) scm!git_extensions("traits", d)

(* What is discovered unless it is refused.                                *)
github_discovery(d) ==
    LET unless_off(o, element) == When(~Off(d, o), Choice(element, d, {<<o, "strategyId">>}))
    IN  unless_off("branch-discovery", "BranchDiscovery")
        (+) Optional("SSHCheckout", d, {<<"ssh-checkout/credentials", "credentialsId">>})
        (+) Switch("traits", d, {<<"discover-tags", "TagDiscovery">>})
        (+) unless_off("discover-pr-forks-strategy", "ForkPullRequestDiscovery")
        (+) When(~Off(d, "discover-pr-forks-strategy"),
                 Choice("ForkPullRequestDiscovery", d, {<<"discover-pr-forks-trust", "trust">>}))
        (+) unless_off("discover-pr-origin", "OriginPullRequestDiscovery")

github_scm(d) ==
    Required("source", d, {<<"repo-owner", "repoOwner">>, <<"repo", "repository">>})
    (+) Xml("source", d, {<<"repo-owner", "id">>, <<"repo", "id">>})
    (+) Optional("source", d, {<<"api-uri", "apiUri">>, <<"credentials-id", "credentialsId">>})
    (+) github_discovery(d) (+) head_filter(d) (+) add_filter_branch_pr_behaviors(d)
    (+) property_strategies(d) (+) build_strategies(d)
    (+) add_github_checks_traits(d) (+) add_notification_context_trait(d)
    (+) add_filter_by_name_wildcard_behaviors(d)
    (+) scm!git_extensions("traits", d) (+) refspecs(d)
    (+) Switch("traits", d, {<<"disable-pr-notifications", "DisableStatusUpdate">>})

github_org_traits(d) ==
    head_filter(d) (+) Optional("RegexSCMSourceFilter", d, {<<"repo-name-regex", "regex">>})
    (+) add_filter_branch_pr_behaviors(d) (+) property_strategies(d) (+) add_notification_context_trait(d)
    (+) scm!git_extensions("traits", d) (+) refspecs(d)
    (+) Switch("traits", d, {<<"disable-pr-notifications", "DisableStatusUpdate">>,
                             <<"exclude-archived-repositories", "ExcludeArchivedRepositories">>})

github_org(d) ==
    Required("GitHubSCMNavigator", d, {<<"repo-owner", "repoOwner">>})
    (+) Optional("GitHubSCMNavigator", d, {<<"api-uri", "apiUri">>, <<"credentials-id", "credentialsId">>})
    (+) github_discovery(d) (+) github_org_traits(d)

-----------------------------------------------------------------------------
(* As a bug would have it: the number of items under a name nobody gives.  *)
folder_xmlMisspelled(d, mapping) ==
    Choice("orphanedItemStrategy", d, mapping)
    (+) Xml("orphanedItemStrategy", d, {<<"days-to-keep", "daysToKeep">>, <<"num-to-keep", "numToKeep">>})
    (+) RefuseIf(Is(d, "periodic-folder-trigger", "bad"))
    (+) Optional("PeriodicFolderTrigger", d, {<<"periodic-folder-trigger", "spec">>,
                                              <<"periodic-folder-trigger", "interval">>})

(* The items that are kept and the time between two looks at the branches. *)
folder_xml(d, mapping) ==
    Choice("orphanedItemStrategy", d, mapping)
    (+) Xml("orphanedItemStrategy", d, {<<"days-to-keep", "daysToKeep">>, <<"number-to-keep", "numToKeep">>})
    (+) RefuseIf(Is(d, "periodic-folder-trigger", "bad"))
    (+) Optional("PeriodicFolderTrigger", d, {<<"periodic-folder-trigger", "spec">>,
                                              <<"periodic-folder-trigger", "interval">>})

multibranch_root_xml(d) ==
    folder_xml(d, {<<"prune-dead-branches", "pruneDeadBranches">>, <<"abort-builds", "abortBuilds">>})
    (+) Lookup(d, {"scm"})
    (+) RefuseIf(Is(d, "scm", "bad"))
    (+) RefuseIf(Given(d, "script-id") /\ Given(d, "script-path"))
    (+) RefuseIf(~Given(d, "script-id") /\ On(d, "sandbox"))
    (+) IF Given(d, "script-id")
        THEN Xml("factory", d, {<<"script-id", "scriptId">>}) (+) Optional("factory", d, {<<"sandbox", "useSandbox">>})
        ELSE Xml("factory", d, {<<"script-path", "scriptPath">>})

githuborg_root_xml(d) ==
    folder_xml(d, {<<"prune-dead-branches", "pruneDeadBranches">>})
    (+) Lookup(d, {"github-org"})
    (+) Xml("WorkflowMultiBranchProjectFactory", d, {<<"script-path", "scriptPath">>})
    (+) build_strategies(d)
==============================================================================
