------------------------------- MODULE Triggers -------------------------------
(***************************************************************************)
(* Components of jenkins_jobs/modules/triggers.py.  The entries of the     *)
(* list trigger-on of gerrit are the options trigger-on/<event>.           *)
(***************************************************************************)
EXTENDS XmlMapping

Events == {"change-abandoned-event", "change-merged-event", "change-restored-event", "draft-published-event",
           "patchset-uploaded-event", "patchset-created-event", "private-state-changed-event", "ref-updated-event",
           "topic-changed-event", "wip-state-changed-event", "comment-added-event", "comment-added-contains-event",
           "bad"}

(* The names with capitals, and what hyphenize makes of them.              *)
OldNames ==
    {<<"triggerOnPatchsetUploadedEvent", "trigger-on-patchset-uploaded-event">>,
     <<"triggerOnChangeAbandonedEvent", "trigger-on-change-abandoned-event">>,
     <<"triggerOnChangeMergedEvent", "trigger-on-change-merged-event">>,
     <<"triggerOnChangeRestoredEvent", "trigger-on-change-restored-event">>,
     <<"triggerOnCommentAddedEvent", "trigger-on-comment-added-event">>,
     <<"triggerOnDraftPublishedEvent", "trigger-on-draft-published-event">>,
     <<"triggerOnRefUpdatedEvent", "trigger-on-ref-updated-event">>,
     <<"triggerApprovalCategory", "trigger-approval-category">>, <<"triggerApprovalValue", "trigger-approval-value">>,
     <<"overrideVotes", "override-votes">>, <<"failureMessage", "failure-message">>, <<"skipVote", "skip-vote">>,
     <<"skipVote/successful", "skip-vote/successful">>, <<"skipVote/failed", "skip-vote/failed">>,
     <<"gerritBuildSuccessfulVerifiedValue", "gerrit-build-successful-verified-value">>,
     <<"gerritBuildFailedVerifiedValue", "gerrit-build-failed-verified-value">>,
     <<"projects/projectCompareType", "projects/project-compare-type">>,
     <<"projects/projectPattern", "projects/project-pattern">>,
     <<"projects/branchCompareType", "projects/branch-compare-type">>,
     <<"projects/branchPattern", "projects/branch-pattern">>}

hyphenized(d) ==
    LET old == {n \in OldNames : Given(d, n[1])}
        kept == DOMAIN d \ {n[1] : n \in old}
    IN  [o \in {n[2] : n \in old} |-> d[CHOOSE name \in DOMAIN d : <<name, o>> \in old]]
        @@ [o \in kept |-> d[o]]

(* gerrit_handle_legacy_configuration: the data it leaves, and whether it  *)
(* is refused.  The events of the old form become entries of trigger-on,   *)
(* and are still there when the same data comes back.                      *)
gerrit_handle_legacy_configuration(data) ==
    LET d == hyphenized(data) @@ ("trigger-on" :> "dict")
        old == {e \in Events : Given(d, "trigger-on-" \o e)}
        new == {e \in Events : Given(d, "trigger-on/" \o e)}
        registered == {e \in old : ~Off(d, "trigger-on-" \o e)}
        plain(e) == e \in registered \/ (e \in new /\ d["trigger-on/" \o e] # "dict")
        approval == plain("comment-added-event")
        entries == [o \in {"trigger-on/" \o e : e \in registered} |-> "true"]
    IN  [refused |-> \/ old # {} /\ new # {}
                     \/ approval /\ Absent(d, {"trigger-approval-category", "trigger-approval-value"}),
         data |-> IF ~approval \/ Absent(d, {"trigger-approval-category", "trigger-approval-value"})
                  THEN entries @@ d
                  ELSE "trigger-on/comment-added-event" :> "dict"
                       @@ "trigger-on/comment-added-event/approval-category" :> d["trigger-approval-category"]
                       @@ "trigger-on/comment-added-event/approval-value" :> d["trigger-approval-value"]
                       @@ entries @@ d]

GerritVersions == <<"2.10", "2.11", "2.14", "2.18", "2.31", "2.32">>

(* An event that is a name makes an element, one that is a dictionary an   *)
(* element with the options in it.  The message about an unknown event     *)
(* adds a list to a view of keys, which fails.                             *)
build_gerrit_triggers(d) ==
    LET given(e) == Given(d, "trigger-on/" \o e)
        created == "trigger-on/patchset-created-event/"
        added == "trigger-on/comment-added-event/"
    IN  CrashIf(given("bad"))
        (+) Optional("triggerOnEvents", d,
                {<<"trigger-on/change-abandoned-event", "PluginChangeAbandonedEvent">>,
                 <<"trigger-on/change-merged-event", "PluginChangeMergedEvent">>,
                 <<"trigger-on/change-restored-event", "PluginChangeRestoredEvent">>,
                 <<"trigger-on/draft-published-event", "PluginDraftPublishedEvent">>,
                 <<"trigger-on/patchset-uploaded-event", "PluginPatchsetCreatedEvent">>,
                 <<"trigger-on/private-state-changed-event", "PluginPrivateStateChangedEvent">>,
                 <<"trigger-on/ref-updated-event", "PluginRefUpdatedEvent">>,
                 <<"trigger-on/topic-changed-event", "PluginTopicChangedEvent">>,
                 <<"trigger-on/wip-state-changed-event", "PluginWipStateChangedEvent">>,
                 <<"trigger-on/patchset-created-event", "PluginPatchsetCreatedEvent">>})
        (+) When(Is(d, "trigger-on/patchset-created-event", "dict"),
                 Xml("PluginPatchsetCreatedEvent", d,
                     {<<created \o "exclude-drafts", "excludeDrafts">>,
                      <<created \o "exclude-trivial-rebase", "excludeTrivialRebase">>,
                      <<created \o "exclude-no-code-change", "excludeNoCodeChange">>,
                      <<created \o "exclude-private", "excludePrivateState">>,
                      <<created \o "exclude-wip", "excludeWipState">>})
                 (+) When(AtLeast(d, GerritVersions, "2.32"),
                          Xml("PluginPatchsetCreatedEvent", d,
                              {<<created \o "commit-message-contains-regex", "commitMessageContainsRegEx">>})))
        (+) When(given("comment-added-contains-event"),
                 Lookup(d, {"trigger-on/comment-added-contains-event/comment-contains-value"})
                 (+) Xml("PluginCommentAddedContainsEvent", d,
                         {<<"trigger-on/comment-added-contains-event/comment-contains-value",
                            "commentAddedCommentContains">>}))
        (+) When(given("comment-added-event"),
                 Required("PluginCommentAddedEvent", d,
                     {<<added \o "approval-category", "verdictCategory">>,
                      <<added \o "approval-value", "commentAddedTriggerApprovalValue">>}))

build_gerrit_skip_votes(d) ==
    Xml("skipVote", d, {<<"skip-vote/successful", "onSuccessful">>, <<"skip-vote/failed", "onFailed">>,
                        <<"skip-vote/unstable", "onUnstable">>, <<"skip-vote/notbuilt", "onNotBuilt">>})
    (+) When(AtLeast(d, GerritVersions, "2.32"), Xml("skipVote", d, {<<"skip-vote/aborted", "onAborted">>}))

(* As a bug would have it: two of the options copied to one element.       *)
build_cancellation_policyCopied(d) ==
    When(AtLeast(d, GerritVersions, "2.32"),
         Xml("buildCancellationPolicy", d,
             {<<"build-cancellation-policy/abort-new-patchsets", "abortNewPatchsets">>,
              <<"build-cancellation-policy/abort-manual-patchsets", "abortNewPatchsets">>,
              <<"build-cancellation-policy/abort-same-topic", "abortSameTopic">>}))

build_cancellation_policy(d) ==
    When(AtLeast(d, GerritVersions, "2.32"),
         Xml("buildCancellationPolicy", d,
             {<<"build-cancellation-policy/abort-new-patchsets", "abortNewPatchsets">>,
              <<"build-cancellation-policy/abort-manual-patchsets", "abortManualPatchsets">>,
              <<"build-cancellation-policy/abort-same-topic", "abortSameTopic">>}))

build_gerrit_parameter_modes(d) ==
    IF AtLeast(d, GerritVersions, "2.18")
    THEN LET replaces(old, new) == IF Given(d, new) THEN new ELSE old
         IN  Choice("GerritTrigger", d,
                 {<<replaces("readable-message", "commit-message-parameter-mode"), "commitMessageParameterMode">>,
                  <<replaces("no-name-and-email", "name-and-email-parameter-mode"), "nameAndEmailParameterMode">>,
                  <<"change-subject-parameter-mode", "changeSubjectParameterMode">>,
                  <<"comment-text-parameter-mode", "commentTextParameterMode">>})
    ELSE Xml("GerritTrigger", d, {<<"no-name-and-email", "noNameAndEmailParameters">>,
                                  <<"readable-message", "readableMessage">>})

(* The entries of a list of the project: each has a type and a pattern.    *)
compared(d, list, parent, type, pattern) ==
    When(Given(d, list),
         Choice(parent, d, {<<type, "compareType">>})
         (+) Lookup(d, {pattern}) (+) Xml(parent, d, {<<pattern, "pattern">>}))

gerrit_project(d) ==
    LET branches == IF Given(d, "projects/branches") THEN "projects/branches" ELSE "projects"
    IN  Choice("GerritProject", d, {<<"projects/project-compare-type", "compareType">>})
        (+) Lookup(d, {"projects/project-pattern"})
        (+) Xml("GerritProject", d,
                {<<"projects/project-pattern", "pattern">>,
                 <<"projects/disable-strict-forbidden-file-verification", "disableStrictForbiddenFileVerification">>})
        (+) compared(d, branches, "Branch", branches \o "/branch-compare-type", branches \o "/branch-pattern")
        (+) compared(d, "projects/file-paths", "filePaths/FilePath",
                     "projects/file-paths/compare-type", "projects/file-paths/pattern")
        (+) compared(d, "projects/forbidden-file-paths", "forbiddenFilePaths/FilePath",
                     "projects/forbidden-file-paths/compare-type", "projects/forbidden-file-paths/pattern")
        (+) compared(d, "projects/topics", "Topic", "projects/topics/compare-type", "projects/topics/pattern")

gerrit_votes(d) ==
    Optional("GerritTrigger", d,
        {<<"gerrit-build-started-verified-value", "gerritBuildStartedVerifiedValue">>,
         <<"gerrit-build-successful-verified-value", "gerritBuildSuccessfulVerifiedValue">>,
         <<"gerrit-build-failed-verified-value", "gerritBuildFailedVerifiedValue">>,
         <<"gerrit-build-unstable-verified-value", "gerritBuildUnstableVerifiedValue">>,
         <<"gerrit-build-notbuilt-verified-value", "gerritBuildNotBuiltVerifiedValue">>,
         <<"gerrit-build-started-codereview-value", "gerritBuildStartedCodeReviewValue">>,
         <<"gerrit-build-successful-codereview-value", "gerritBuildSuccessfulCodeReviewValue">>,
         <<"gerrit-build-failed-codereview-value", "gerritBuildFailedCodeReviewValue">>,
         <<"gerrit-build-unstable-codereview-value", "gerritBuildUnstableCodeReviewValue">>,
         <<"gerrit-build-notbuilt-codereview-value", "gerritBuildNotBuiltCodeReviewValue">>})
    (+) When(AtLeast(d, GerritVersions, "2.31"),
             Optional("GerritTrigger", d,
                 {<<"gerrit-build-aborted-verified-value", "gerritBuildAbortedVerifiedValue">>,
                  <<"gerrit-build-aborted-codereview-value", "gerritBuildAbortedCodeReviewValue">>}))

gerrit(data) ==
    LET legacy == gerrit_handle_legacy_configuration(data)
        d == legacy.data
        v(since) == AtLeast(d, GerritVersions, since)
    IN  RefuseIf(legacy.refused)
        (+) When(Given(d, "projects"), gerrit_project(d))
        (+) build_gerrit_skip_votes(d)
        (+) When(Given(d, "build-cancellation-policy"), build_cancellation_policy(d))
        (+) Xml("GerritTrigger", d, {<<"silent", "silentMode">>, <<"silent-start", "silentStartMode">>,
                                     <<"escape-quotes", "escapeQuotes">>, <<"dependency-jobs", "dependencyJobsNames">>})
        (+) build_gerrit_parameter_modes(d)
        (+) Choice("GerritTrigger", d, {<<"notification-level", "notificationLevel">>})
        (+) Xml("GerritTrigger", d, {<<"dynamic-trigger-enabled", "dynamicTriggerConfiguration">>,
                                     <<"dynamic-trigger-url", "triggerConfigURL">>,
                                     <<"trigger-information-action", "triggerInformationAction">>})
        (+) When(v("2.11") /\ ~v("2.14"),
                 Xml("GerritTrigger", d, {<<"trigger-for-unreviewed-patches", "allowTriggeringUnreviewedPatches">>}))
        (+) build_gerrit_triggers(d)
        (+) When(On(d, "override-votes"), gerrit_votes(d))
        (+) Xml("GerritTrigger", d,
                {<<"start-message", "buildStartMessage">>, <<"failure-message", "buildFailureMessage">>,
                 <<"successful-message", "buildSuccessfulMessage">>, <<"unstable-message", "buildUnstableMessage">>,
                 <<"notbuilt-message", "buildNotBuiltMessage">>, <<"custom-url", "customUrl">>,
                 <<"failure-message-file", "buildUnsuccessfulFilepath">>, <<"server-name", "serverName">>})
        (+) When(v("2.31"), Xml("GerritTrigger", d, {<<"aborted-message", "buildAbortedMessage">>}))

(* What is told to the pull request, once there is something to tell.      *)
github_extensions(d) ==
    LET status == {"status-context", "triggered-status", "started-status", "status-url", "status-add-test-results",
                   "success-status", "failure-status", "error-status"}
    IN  When(\E o \in status : Given(d, o) /\ ~Off(d, o),
             Xml("GhprbSimpleStatus", d,
                 {<<"status-context", "commitStatusContext">>, <<"triggered-status", "triggeredStatus">>,
                  <<"started-status", "startedStatus">>, <<"status-url", "statusUrl">>,
                  <<"status-add-test-results", "addTestResults">>}))
        (+) Optional("completedStatus/GhprbBuildResultMessage", d,
                {<<o \o "-status", "message">> : o \in {"success", "failure", "error"}})
        (+) Optional("messages/GhprbBuildResultMessage", d,
                {<<o \o "-comment", "message">> : o \in {"success", "failure", "error"}})
        (+) Switch("extensions", d, {<<"cancel-builds-on-update", "GhprbCancelBuildsOnUpdate">>,
                                     <<"no-commit-status", "GhprbNoCommitStatus">>})
        (+) Optional("GhprbCommentFile", d, {<<"comment-file", "commentFilePath">>})

github_pull_request(d) ==
    Xml("GhprbTrigger", d,
        {<<"cron", "spec">>, <<"cron", "cron">>, <<"admin-list", "adminlist">>, <<"white-list", "whitelist">>,
         <<"org-list", "orgslist">>, <<"black-list-commit-author", "blackListCommitAuthor">>,
         <<"white-list-labels", "whiteListLabels">>, <<"black-list-labels", "blackListLabels">>,
         <<"excluded-regions", "excludedRegions">>, <<"included-regions", "includedRegions">>,
         <<"build-desc-template", "buildDescTemplate">>, <<"trigger-phrase", "triggerPhrase">>,
         <<"allow-whitelist-orgs-as-admins", "allowMembersOfWhitelistedOrgsAsAdmin">>,
         <<"skip-build-phrase", "skipBuildPhrase">>, <<"only-trigger-phrase", "onlyTriggerPhrase">>,
         <<"github-hooks", "useGitHubHooks">>, <<"permit-all", "permitAll">>,
         <<"auto-close-on-fail", "autoCloseFailedPullRequests">>,
         <<"display-build-errors-on-downstream-builds", "displayBuildErrorsOnDownstreamBuilds">>})
    (+) Optional("GhprbTrigger", d, {<<"auth-id", "gitHubAuthId">>})
    (+) Optional("whiteListTargetBranches/GhprbBranch", d, {<<"white-list-target-branches", "branch">>})
    (+) Optional("blackListTargetBranches/GhprbBranch", d, {<<"black-list-target-branches", "branch">>})
    (+) github_extensions(d)

GitlabVersions == <<"1.1.25", "1.1.26", "1.2.0">>

(* For an old plugin the filter `All' becomes `' in the data.              *)
gitlab_filter(d) ==
    IF ~AtLeast(d, GitlabVersions, "1.2.0") /\ Is(d, "branch-filter-type", "All")
    THEN "branch-filter-type" :> "" @@ d ELSE d

gitlab(data) ==
    LET d == gitlab_filter(data)
        filter == IF AtLeast(d, GitlabVersions, "1.2.0") THEN "branchFilterType" ELSE "branchFilterName"
        on_push == {<<"trigger-open-merge-request-push", "triggerOpenMergeRequestOnPush">>}
    IN  When(AtLeast(d, GitlabVersions, "1.1.26"),
             RefuseIf(IsOneOf(d, "trigger-open-merge-request-push", {"true", "bad"})))
        (+) Xml("GitLabPushTrigger", d, on_push)
        (+) Choice("GitLabPushTrigger", d, {<<"branch-filter-type", filter>>})
        (+) Xml("GitLabPushTrigger", d,
                {<<"trigger-push", "triggerOnPush">>, <<"trigger-merge-request", "triggerOnMergeRequest">>,
                 <<"trigger-only-if-new-commits-pushed", "triggerOnlyIfNewCommitsPushed">>,
                 <<"trigger-accepted-merge-request", "triggerOnAcceptedMergeRequest">>,
                 <<"trigger-closed-merge-request", "triggerOnClosedMergeRequest">>,
                 <<"trigger-note", "triggerOnNoteRequest">>, <<"note-regex", "noteRegex">>, <<"ci-skip", "ciSkip">>,
                 <<"wip-skip", "skipWorkInProgressMergeRequest">>, <<"set-build-description", "setBuildDescription">>,
                 <<"cancel-pending-builds-on-update", "cancelPendingBuildsOnUpdate">>,
                 <<"add-note-merge-request", "addNoteOnMergeRequest">>,
                 <<"add-vote-merge-request", "addVoteOnMergeRequest">>,
                 <<"accept-merge-request-on-success", "acceptMergeRequestOnSuccess">>,
                 <<"add-ci-message", "addCiMessage">>, <<"allow-all-branches", "allowAllBranches">>,
                 <<"source-branch-regex", "sourceBranchRegex">>, <<"target-branch-regex", "targetBranchRegex">>,
                 <<"secret-token", "secretToken">>, <<"force-build-labels", "labelsThatForcesBuildIfAdded">>,
                 <<"include-branches", "includeBranchesSpec">>, <<"exclude-branches", "excludeBranchesSpec">>})
        (+) Optional("GitLabPushTrigger", d, {<<"pending-build-name", "pendingBuildName">>})
        (+) When(AnyOf(d, {"merge-request-label-filter-config/include", "merge-request-label-filter-config/exclude"}),
                 Xml("mergeRequestLabelFilterConfig", d,
                     {<<"merge-request-label-filter-config/include", "include">>,
                      <<"merge-request-label-filter-config/exclude", "exclude">>}))

(* The content types are the entries of check-content.                     *)
ContentTypes == {"simple", "jar", "tar", "zip", "source-manifest", "jar-manifest", "properties", "xml", "text"}

monitor_files(d) ==
    LET at == "files/check-content/"
        manifest(type, element) ==
            When(Given(d, at \o type),
                 RefuseIf(Is(d, at \o type, "none"))
                 (+) Optional(element, d, {<<at \o type \o "/keys", "keys2Inspect">>})
                 (+) Xml(element, d, {<<at \o type \o "/all-keys", "allKeys">>}))
    IN  Xml("FileNameTrigger", d, {<<"cron", "spec">>})
        (+) RefuseIf(~Given(d, "files"))
        (+) Required("FileNameTriggerInfo", d, {<<"files/path", "filePathPattern">>})
        (+) Choice("FileNameTriggerInfo", d, {<<"files/strategy", "strategy">>})
        (+) RefuseIf(Given(d, at \o "bad"))
        (+) Switch("contentFileTypes", d, {<<at \o "simple", "SimpleFileContent">>, <<at \o "jar", "JARFileContent">>,
                                           <<at \o "tar", "TarFileContent">>, <<at \o "zip", "ZIPFileContent">>})
        (+) manifest("source-manifest", "SourceManifestFileContent")
        (+) manifest("jar-manifest", "JARManifestFileContent")
        (+) manifest("properties", "PropertiesFileContent")
        (+) Optional("XMLFileContentEntry", d, {<<at \o "xml", "expression">>})
        (+) Optional("TextFileContentEntry", d, {<<at \o "text", "regex">>})
        (+) When(\E o \in DOMAIN d : o \in {at \o type : type \in ContentTypes},
                 Xml("FileNameTriggerInfo", d, {<<"files/ignore-modificaton-date", "doNotCheckLastModificationDate">>}))

generic_webhook_trigger(d) ==
    LET variable(list, parent) ==
            When(Given(d, list), Xml(parent, d, {<<list \o "/key", "key">>, <<list \o "/regex-filter", "regexpFilter">>}))
    IN  When(Given(d, "post-content-params"),
             RefuseIf(~Given(d, "post-content-params/type"))
             (+) Choice("GenericVariable", d, {<<"post-content-params/type", "expressionType">>})
             (+) Xml("GenericVariable", d, {<<"post-content-params/value", "value">>,
                                            <<"post-content-params/default-value", "defaultValue">>})
             (+) variable("post-content-params", "GenericVariable"))
        (+) variable("request-params", "GenericRequestVariable")
        (+) variable("header-params", "GenericHeaderVariable")
        (+) Xml("GenericTrigger", d,
                {<<"regex-filter-text", "regexpFilterText">>, <<"regex-filter-expression", "regexpFilterExpression">>,
                 <<"print-post-content", "printPostContent">>, <<"print-contrib-var", "printContributedVariables">>,
                 <<"cause", "causeString">>, <<"token", "token">>, <<"token-credential-id", "tokenCredentialId">>,
                 <<"silent-response", "silentResponse">>})
==============================================================================
