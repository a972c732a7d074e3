----------------------------- MODULE MCComponents -----------------------------
(***************************************************************************)
(* The options of each component: those always given, those a condition    *)
(* reads, with their values, the dictionaries and lists with their         *)
(* options, and the rest.                                                  *)
(***************************************************************************)
EXTENDS Components

B == {"true", "false"}
D == {"dict"}

Options(always, choices, parts, rest) ==
    [always |-> always, choices |-> choices, parts |-> parts, rest |-> rest]

(* Each of the options has these values.                                   *)
Each(os, values) == [o \in os |-> values]

(* The options of a dictionary, or of the entries of a list.               *)
In(list, os) == {list \o "/" \o o : o \in os}

ScmOptions ==
    "git" :> Options({"url"},
        "clean" :> B @@ "choosing-strategy" :> {"inverse", "bad"}
        @@ "browser" :> {"auto", "cgit", "gitblit", "gitlab", "phabricator", "bad"}
        @@ Each({"clean/after", "clean/before", "skip-tag", "per-build-tag", "force-polling-using-workspace",
                 "ignore-notify", "prune", "use-author", "lfs-pull", "wipe-workspace"}, B)
        @@ "merge/strategy" :> {"octopus", "bad"} @@ "merge/fast-forward-mode" :> {"NO_FF", "bad"},
        "remotes" :> {"remotes/url", "remotes/refspec", "remotes/credentials-id"}
        @@ "clean" :> {"clean/after", "clean/before", "clean/after/remove-stale-nested-repos",
                       "clean/before/remove-stale-nested-repos"}
        @@ "clean/after" :> {"clean/after/remove-stale-nested-repos"}
        @@ "clean/before" :> {"clean/before/remove-stale-nested-repos"}
        @@ "changelog-against" :> {"changelog-against/remote", "changelog-against/branch"}
        @@ "merge" :> {"merge/remote", "merge/branch", "merge/strategy", "merge/fast-forward-mode"}
        @@ "sparse-checkout" :> {"sparse-checkout/paths"}
        @@ "submodule" :> {"submodule/disable", "submodule/recursive", "submodule/tracking", "submodule/threads",
                           "submodule/parent-credentials", "submodule/reference-repo", "submodule/timeout"},
        {"name", "refspec", "credentials-id", "branches", "fastpoll", "disable-submodules", "recursive-submodules",
         "git-tool", "reference-repo", "browser-url", "browser-version", "project-name", "repo-name",
         "git-config-name", "git-config-email", "basedir", "committer/name", "committer/email", "excluded-users",
         "included-regions", "excluded-regions", "ignore-commits-with-messages", "local-branch", "scm-name",
         "shallow-clone", "depth", "do-not-fetch-tags", "honor-refspec", "skip-notifications", "timeout"})
    @@ "svn" :> Options({"url"},
        Each({"repo-depth", "repos/repo-depth"}, {"files", "bad"}) @@ "workspaceupdater" :> {"update", "bad"},
        "repos" :> {"repos/url", "repos/basedir", "repos/credentials-id", "repos/ignore-externals", "repos/repo-depth"}
        @@ "additional-credentials" :> {"additional-credentials/realm", "additional-credentials/credentials-id"},
        {"basedir", "credentials-id", "ignore-externals", "excluded-users", "included-regions", "excluded-regions",
         "excluded-commit-messages", "exclusion-revprop-name", "ignore-property-changes-on-directories",
         "filter-changelog", "viewvc-url"})
    @@ "cvs" :> Options({"repos", "repos/root", "repos/locations", "repos/locations/modules",
                         "repos/locations/modules/remote"},
        "repos/locations/type" :> {"HEAD", "BRANCH", "TAG", "bad"},
        "repos" :> {"repos/locations", "repos/locations/modules"}
        @@ "repos/locations" :> {"repos/locations/modules", "repos/locations/modules/remote"}
        @@ "repos/locations/modules" :> {"repos/locations/modules/remote"},
        {"repos/locations/name", "repos/locations/use-head", "repos/locations/modules/local-name",
         "repos/excluded-regions", "use-update", "prune-empty", "skip-changelog", "show-all-output",
         "clean-checkout", "clean-copy", "repos/compression-level"})

Event == "trigger-on/"
TriggerOptions ==
    "gerrit" :> Options({"projects", "projects/project-pattern", "projects/branches",
                         "projects/branches/branch-pattern"},
        "@version" :> {"2.10", "2.11", "2.14", "2.18", "2.31"} @@ "override-votes" :> {"true"}
        @@ Each({"readable-message", "no-name-and-email"}, B)
        @@ Each({Event \o e : e \in triggers!Events \ {"comment-added-contains-event"}}, {"true"})
        @@ Each({"projects/project-compare-type", "projects/branches/branch-compare-type",
                 "projects/file-paths/compare-type", "projects/forbidden-file-paths/compare-type",
                 "projects/topics/compare-type"}, {"ANT", "bad"})
        @@ Each({"commit-message-parameter-mode", "name-and-email-parameter-mode", "change-subject-parameter-mode",
                 "comment-text-parameter-mode"}, {"NONE", "bad"})
        @@ "notification-level" :> {"OWNER", "bad"},
        "projects" :> {"projects/project-pattern", "projects/branches"}
        @@ "projects/branches" :> {"projects/branches/branch-pattern"}
        @@ "projects/file-paths" :> {"projects/file-paths/pattern", "projects/file-paths/compare-type"}
        @@ "projects/forbidden-file-paths" :> {"projects/forbidden-file-paths/pattern",
                                               "projects/forbidden-file-paths/compare-type"}
        @@ "projects/topics" :> {"projects/topics/pattern", "projects/topics/compare-type"}
        @@ "trigger-on/patchset-created-event" :>
               {"trigger-on/patchset-created-event/" \o o :
                   o \in {"exclude-drafts", "exclude-trivial-rebase", "exclude-no-code-change", "exclude-private",
                          "exclude-wip", "commit-message-contains-regex"}}
        @@ "trigger-on/comment-added-event" :>
               {"trigger-on/comment-added-event/approval-category", "trigger-on/comment-added-event/approval-value"}
        @@ "trigger-on/comment-added-contains-event" :>
               {"trigger-on/comment-added-contains-event/comment-contains-value"}
        @@ "build-cancellation-policy" :>
               {"build-cancellation-policy/" \o o :
                   o \in {"abort-new-patchsets", "abort-manual-patchsets", "abort-same-topic"}}
        @@ "skip-vote" :> {"skip-vote/" \o o : o \in {"successful", "failed", "unstable", "notbuilt", "aborted"}},
        {"gerrit-build-" \o b \o "-" \o k \o "-value" :
            b \in {"started", "successful", "failed", "unstable", "notbuilt", "aborted"},
            k \in {"verified", "codereview"}}
        \cup {"failure-message", "successful-message", "unstable-message", "notbuilt-message", "aborted-message",
              "failure-message-file", "projects/disable-strict-forbidden-file-verification", "silent", "silent-start",
              "escape-quotes", "dependency-jobs", "dynamic-trigger-enabled",
              "dynamic-trigger-url", "trigger-for-unreviewed-patches", "custom-url", "server-name"})
    @@ "gerrit (old)" :> Options({"projects", "projects/projectPattern", "projects/branchPattern"},
        Each({"trigger-on-change-merged-event", "trigger-on-comment-added-event", "triggerOnRefUpdatedEvent",
              "trigger-on/change-merged-event", "overrideVotes"}, B)
        @@ Each({"projects/projectCompareType", "projects/branchCompareType"}, {"ANT", "bad"}),
        "projects" :> {"projects/projectPattern", "projects/branchPattern"},
        {"trigger-approval-category", "triggerApprovalValue", "failureMessage", "skipVote/successful",
         "gerritBuildSuccessfulVerifiedValue", "gerritBuildFailedVerifiedValue"})
    @@ "github-pull-request" :> Options({}, Each({"status-add-test-results", "cancel-builds-on-update",
                                                   "no-commit-status"}, B), << >>,
        {"admin-list", "white-list", "org-list", "allow-whitelist-orgs-as-admins", "cron", "trigger-phrase",
         "only-trigger-phrase", "skip-build-phrase", "black-list-commit-author", "black-list-labels",
         "white-list-labels", "github-hooks", "permit-all", "auto-close-on-fail",
         "display-build-errors-on-downstream-builds", "white-list-target-branches", "black-list-target-branches",
         "auth-id", "build-desc-template", "status-context", "triggered-status", "started-status", "status-url",
         "success-status", "failure-status", "error-status", "success-comment", "failure-comment", "error-comment",
         "comment-file", "included-regions", "excluded-regions"})
    @@ "gitlab" :> Options({},
        "@version" :> {"1.1.25", "1.1.26"} @@ "trigger-open-merge-request-push" :> {"true", "both", "bad"}
        @@ "branch-filter-type" :> {"All", "NameBasedFilter", "bad"},
        "merge-request-label-filter-config" :> {"merge-request-label-filter-config/include",
                                                "merge-request-label-filter-config/exclude"},
        {"trigger-push", "trigger-merge-request", "trigger-accepted-merge-request", "trigger-closed-merge-request",
         "trigger-only-if-new-commits-pushed", "trigger-note", "note-regex", "ci-skip", "wip-skip",
         "set-build-description", "cancel-pending-builds-on-update", "pending-build-name", "add-note-merge-request",
         "add-vote-merge-request", "accept-merge-request-on-success", "add-ci-message", "allow-all-branches",
         "include-branches", "exclude-branches", "source-branch-regex", "target-branch-regex", "secret-token",
         "force-build-labels"})
    @@ "monitor-files" :> Options({"files", "files/path"},
        "files/strategy" :> {"IGNORE", "bad"}
        @@ Each({"files/check-content/" \o t : t \in {"simple", "jar", "tar", "zip", "bad"}}, B)
        @@ "files/check-content/properties" :> {"none"},
        "files" :> {"files/path"}
        @@ "files/check-content" :> UNION {{"files/check-content/" \o t, "files/check-content/" \o t \o "/keys",
                                         "files/check-content/" \o t \o "/all-keys"} :
                                        t \in {"source-manifest", "jar-manifest", "properties"}}
                                 \cup {"files/check-content/" \o t : t \in {"simple", "jar", "tar", "zip", "bad", "xml", "text"}}
        @@ [l \in {"files/check-content/" \o t : t \in {"source-manifest", "jar-manifest", "properties"}} |->
               {l \o "/keys", l \o "/all-keys"}],
        {"cron", "files/ignore-modificaton-date"})
    @@ "generic-webhook-trigger" :> Options({},
        "post-content-params/type" :> {"XPath", "bad"},
        "post-content-params" :> {"post-content-params/" \o o :
                                     o \in {"type", "key", "value", "regex-filter", "default-value"}}
        @@ "request-params" :> {"request-params/key", "request-params/regex-filter"}
        @@ "header-params" :> {"header-params/key", "header-params/regex-filter"},
        {"token", "token-credential-id", "print-post-content", "print-contrib-var", "silent-response", "cause",
         "regex-filter-expression", "regex-filter-text"})

ReportOptions ==
    Options({"types"}, "thresholdmode" :> {"number", "percent"} @@ "thresholds/unknown/unstable" :> {"true"},
        "types" :> {"types/gtest"}
        @@ "types/gtest" :> In("types/gtest", {"pattern", "requireupdate", "deleteoutput", "skip-if-no-test-files", "stoponerror"})
        @@ "thresholds" :> {"thresholds/failed", "thresholds/unknown"}
        @@ "thresholds/failed" :> In("thresholds/failed", {"unstable", "unstablenew", "failure", "failurenew"})
        @@ "thresholds/unknown" :> {"thresholds/unknown/unstable"},
        {"test-time-margin"})

BuilderOptions ==
    "trigger-builds" :> Options({"project"},
        Each({"current-parameters", "svn-revision", "same-node", "git-revision", "block"}, B)
        @@ "parameter-factories/factory" :> {"filebuild", "binaryfile", "counterbuild", "allnodesforlabel",
                                             "allonlinenodes", "bad"}
        @@ Each(In("parameter-factories", {"no-files-found-action", "validation-fail"}), {"NOPARMS", "bad"})
        @@ Each(In("block-thresholds", {"build-step-failure-threshold", "unstable-threshold", "failure-threshold"}),
                {"never", "SUCCESS", "bad"}),
        "bool-parameters" :> In("bool-parameters", {"name", "value"})
        @@ "git-revision" :> {"git-revision/combine-queued-commits"}
        @@ "parameter-factories" :> In("parameter-factories",
               {"factory", "file-pattern", "no-files-found-action", "parameter-name", "from", "to", "step",
                "parameters", "validation-fail", "name", "node-label", "ignore-offline-nodes"})
        @@ "block-thresholds" :> In("block-thresholds",
               {"build-step-failure-threshold", "unstable-threshold", "failure-threshold"})
        @@ "then" :> {"then/project"},
        {"predefined-parameters", "property-file", "property-file-fail-on-missing", "node-label-name", "node-label",
         "restrict-matrix-project"})
    @@ "conditional-step" :> Options({},
        "condition-kind" :> {"always", "never", "boolean-expression", "build-cause", "day-of-week", "execution-node",
                             "strings-match", "current-status", "shell", "windows-shell", "file-exists",
                             "files-match", "num-comp", "regex-match", "time", "not", "and", "or", "bad"}
        @@ "steps" :> {"one", "many"} @@ "on-evaluation-failure" :> {"run", "bad"}
        @@ "day-selector" :> {"weekday", "select-days", "bad"}
        @@ "cause" :> {"SCM_CAUSE", "bad"}
        @@ Each({"condition-worst", "condition-best"}, {"FAILURE", "bad"})
        @@ "condition-basedir" :> {"jenkins-home", "bad"} @@ "comparator" :> {"equal", "bad"}
        @@ Each({"condition-operand/condition-kind", "condition-operands/condition-kind"}, {"never", "boolean-expression"}),
        "days" :> In("days", builders!Days)
        @@ "condition-operand" :> {"condition-operand/condition-kind"}
        @@ "condition-operands" :> {"condition-operands/condition-kind"},
        {"condition-expression", "exclusive-cause", "use-build-time", "nodes", "condition-string1",
         "condition-string2", "condition-case-insensitive", "condition-command", "condition-filename",
         "include-pattern", "exclude-pattern", "lhs", "rhs", "regex", "label", "earliest-hour", "earliest-min",
         "latest-hour", "latest-min"})
    @@ "multijob" :> Options({"name"},
        "condition" :> {"FAILURE", "bad"} @@ "execution-type" :> {"SEQUENTIALLY", "bad"}
        @@ "projects/kill-phase-on" :> {"FAILURE", "bad"}
        @@ Each(In("projects", {"node-parameters", "git-revision"}), B),
        "projects" :> In("projects",
            {"name", "alias", "current-parameters", "node-label-name", "node-label", "node-parameters",
             "git-revision", "property-file", "predefined-parameters", "abort-all-job", "aggregate-results",
             "enable-condition", "kill-phase-on", "restrict-matrix-project", "retry"})
        @@ "projects/retry" :> In("projects/retry", {"strategy-path", "max-retry"}),
        {})
    @@ "saltstack" :> Options({"servername", "credentials"},
        "authtype" :> {"ldap", "bad"} @@ "targettype" :> {"list", "bad"}
        @@ "clientinterface" :> {"local", "local-batch", "runner", "bad"} @@ "setpillardata" :> B,
        << >>,
        {"target", "function", "arguments", "kwarguments", "saveoutput", "wait", "polltime", "batchsize", "mods",
         "pillarkey", "pillarvalue"})
    @@ "cmake" :> Options({"source-dir"},
        "@version" :> {"1.10"} @@ "build-type" :> {"Debug", "another"},
        "build-tool-invocations" :> In("build-tool-invocations", {"use-cmake", "arguments", "environment-variables"}),
        {"generator", "preload-script", "other-arguments", "clean-build-dir", "working-dir", "installation-name",
         "build-dir", "install-dir", "make-command", "install-command", "custom-cmake-path", "clean-install-dir"})
    @@ "dsl" :> Options({},
        Each({"removed-job-action", "removed-view-action"}, {"DELETE", "bad"})
        @@ "lookup-strategy" :> {"SEED_JOB", "bad"} @@ Each({"script-text", "targets", "target"}, {"text"}),
        << >>,
        {"sandbox", "ignore-existing", "additional-classpath"})
    @@ "xcode" :> Options({}, "ipa-export-method" :> {"ad-hoc", "bad"},
        "provisioning-profiles" :> In("provisioning-profiles", {"bundle-id", "provisioning-profile-uuid"}),
        {"developer-profile", "clean-build", "clean-test-reports", "archive", "configuration",
         "configuration-directory", "target", "sdk", "symroot", "project-path", "project-file", "build-arguments",
         "schema", "workspace", "profile", "codesign-id", "allow-failing", "version-technical", "version-marketing",
         "ipa-version", "ipa-output", "compile-bitcode", "upload-bitcode", "upload-symbols", "development-team-id",
         "keychain-name", "keychain-path", "keychain-password", "keychain-unlock"})
    @@ "ansible-playbook" :> Options({"playbook"},
        "inventory-type" :> {"path", "content", "do-not-specify", "bad"} @@ Each({"sudo", "become"}, B),
        "inventory" :> In("inventory", {"path", "content", "dynamic"})
        @@ "variables" :> In("variables", {"name", "value", "hidden"}),
        {"hosts", "tags-to-run", "tags-to-skip", "task-to-start-at", "workers", "credentials-id",
         "vault-credentials-id", "sudo-user", "become-user", "unbuffered-output", "colorized-output",
         "disable-host-key-checking", "additional-parameters", "host-key-checking"})
    @@ "xunit (builder)" :> ReportOptions
    @@ "http-request" :> Options({"url"},
        "mode" :> {"PUT", "bad"} @@ Each({"content-type", "accept-type"}, {"TEXT_HTML", "bad"}),
        "custom-headers" :> In("custom-headers", {"name", "value"}),
        {"output-file", "console-log", "pass-build", "time-out", "valid-response-codes", "valid-response-content",
         "authentication-key"})
    @@ "shining-panda" :> Options({},
        "build-environment" :> {"custom", "virtualenv", "python", "bad"} @@ "nature" :> {"xshell", "bad"}, << >>,
        {"python-version", "home", "name", "clear", "use-distribute", "system-site-packages", "command",
         "ignore-exit-code"})

CppcheckKinds == {"error", "warning", "style", "performance", "information", "nocategory", "portability"}
CheckstyleLimits == {<<"totalAll", "total-all">>, <<"totalHigh", "total-high">>, <<"totalNormal", "total-normal">>,
                     <<"totalLow", "total-low">>}
NewLimits == {"new-all", "new-high", "new-normal", "new-low"}
ArtifactoryProps ==
    {"scopes", "violation-recipients", "black-duck-app-name", "black-duck-app-version",
     "black-duck-report-recipients", "black-duck-scopes", "deploy-artifacts", "discard-old-builds",
     "discard-build-artifacts", "publish-build-info", "env-vars-include", "run-checks", "include-publish-artifacts",
     "license-auto-discovery", "enable-issue-tracker-integration", "aggregate-build-issues", "black-duck-run-checks",
     "black-duck-include-published-artifacts", "auto-create-missing-component-requests",
     "auto-discard-stale-component-requests", "filter-excluded-artifacts-from-build", "name", "url",
     "deployment-include-patterns", "deployment-exclude-patterns", "env-vars-include-patterns",
     "env-vars-exclude-patterns"}

Metrics == UNION {In("metric-targets/" \o target, {"method", "statement"}) : target \in {"healthy", "unhealthy", "failing"}}

PublisherOptions ==
    "postbuildscript" :> Options({},
        Each({"generic-script/execute-on", "groovy-script/execute-on", "groovy/execute-on", "builders/execute-on"},
             {"axes", "bad"}),
        "generic-script" :> In("generic-script", {"file-path", "build-on", "execute-on", "role"})
        @@ "groovy-script" :> In("groovy-script", {"file-path", "build-on", "execute-on", "role"})
        @@ "groovy" :> In("groovy", {"content", "build-on", "execute-on", "role"})
        @@ "builders" :> In("builders", {"build-steps", "build-on", "execute-on", "role"}),
        {"mark-unstable-if-failed"})
    @@ "postbuildscript (old)" :> Options({},
        "execute-on" :> {"axes", "bad"}
        @@ Each({"script-only-if-succeeded", "onsuccess", "script-only-if-failed", "onfailure"}, B),
        << >>,
        {"mark-unstable-if-failed", "generic-script", "groovy-script", "groovy", "builders"})
    @@ "conditional-publisher" :> Options({"action"},
        "@version" :> {"0.10", "0.11"} @@ "condition-aggregation" :> B @@ "on-evaluation-failure" :> {"run", "bad"}
        @@ Each({"condition-kind", "condition-aggregation-kind"},
                {"always", "never", "boolean-expression", "current-status", "shell", "windows-shell", "regexp",
                 "file-exists", "bad"})
        @@ Each({"condition-worst", "condition-best", "condition-aggregation-worst", "condition-aggregation-best"},
                {"FAILURE", "bad"}),
        << >>,
        UNION {{p \o "-expression", p \o "-command", p \o "-searchtext", p \o "-filename"} :
                  p \in {"condition", "condition-aggregation"}}
        \cup {"condition-basedir"})
    @@ "tasks" :> Options({}, << >>,
        "status-thresholds" :> UNION {In("status-thresholds", {s \o "-" \o k[1] \o "-" \o l[1] : l \in publishers!Levels}) :
                                         s \in {"unstable", "failed"}, k \in publishers!Kinds},
        {"files-to-scan", "files-to-exclude", "tasks-tags-high", "tasks-tags-normal", "tasks-tags-low",
         "compute-new-warnings", "ignore-case", "regular-expression", "run-always", "detect-module",
         "health-thresholds-100", "health-thresholds-0", "health-priorities", "use-delta", "use-prev-build-as-ref",
         "only-use-stable-as-ref", "default-encoding"})
    @@ "warnings" :> Options({}, "health-priorities" :> {"priority-high", "bad"},
        "workspace-file-scanners" :> In("workspace-file-scanners", {"file-pattern", "scanner"})
        @@ "total-thresholds" :> In("total-thresholds", {"unstable", "failed"})
        @@ "total-thresholds/unstable" :> In("total-thresholds/unstable", {"total-" \o l[1] : l \in publishers!Levels})
        @@ "total-thresholds/failed" :> In("total-thresholds/failed", {"total-" \o l[1] : l \in publishers!Levels})
        @@ "new-thresholds" :> In("new-thresholds", {"unstable", "failed"})
        @@ "new-thresholds/unstable" :> In("new-thresholds/unstable", {"new-" \o l[1] : l \in publishers!Levels})
        @@ "new-thresholds/failed" :> In("new-thresholds/failed", {"new-" \o l[1] : l \in publishers!Levels}),
        {"console-log-parsers", "files-to-include", "files-to-ignore", "messages-to-ignore", "categories-to-ignore",
         "plugin-name", "run-always", "detect-modules", "health-threshold-high", "health-threshold-low",
         "default-encoding", "resolve-relative-paths", "use-delta-for-new-warnings",
         "use-previous-build-as-reference", "only-use-stable-builds-as-reference"})
    @@ "google-cloud-storage" :> Options({"credentials-id", "uploads"}, "uploads/bad" :> {"bad"},
        "uploads" :> In("uploads", {"bad", "expiring-elements", "build-log", "classic"})
        @@ "uploads/expiring-elements" :> In("uploads/expiring-elements", {"bucket-name", "days-to-retain"})
        @@ "uploads/build-log" :> In("uploads/build-log",
              {"storage-location", "log-name", "share-publicly", "upload-for-failed-jobs", "show-inline", "strip-prefix"})
        @@ "uploads/classic" :> In("uploads/classic",
              {"storage-location", "file-pattern", "share-publicly", "upload-for-failed-jobs", "show-inline",
               "strip-prefix"}),
        {})
    @@ "email-ext" :> Options({},
        "@version" :> {"2.38"} @@ Each({t[1] : t \in publishers!EmailTriggers} \cup {"failure"}, B)
        @@ "content-type" :> {"html", "bad"} @@ "matrix-trigger" :> {"both", "bad"},
        "send-to" :> In("send-to", {"developers", "requester", "culprits", "recipients",
                                    "failing-test-suspects-recipients", "first-failing-build-suspects-recipients",
                                    "upstream-committers"}),
        {"recipients", "subject", "body", "attachments", "presend-script", "postsend-script", "attach-build-log",
         "compress-log", "save-output", "disable-publisher", "reply-to", "from", "trigger-script"})
    @@ "checkstyle" :> Options({}, "dont-compute-new" :> B @@ Each({"health-threshold", "healthThreshold"}, {"low", "bad"}),
        "thresholds" :> In("thresholds", {"unstable", "failed"})
        @@ [p \in In("thresholds", {"unstable", "failed"}) |->
               In(p, UNION {{n[1], n[2]} : n \in CheckstyleLimits} \cup NewLimits)],
        {"healthy", "unhealthy", "unHealthy", "plugin-name", "default-encoding", "defaultEncoding", "can-run-on-failed",
         "canRunOnFailed", "use-stable-build-as-reference", "use-previous-build-as-reference", "use-delta-values",
         "should-detect-modules", "shouldDetectModules", "do-not-resolve-relative-paths", "pattern"})
    @@ "slack" :> Options({"team-domain", "auth-token", "auth-token-id", "room"},
        "@version" :> {"1.0"} @@ "commit-info-choice" :> {"AUTHORS", "bad"}
        @@ "include-custom-message" :> B, << >>,
        {"build-server-url", "notify-start", "notify-success", "notify-aborted", "notify-not-built", "notify-unstable",
         "notify-failure", "notify-every-failure", "notify-back-to-normal", "notify-regression",
         "notify-repeated-failure", "include-test-summary", "include-failed-tests", "custom-message",
         "custom-message-success", "custom-message-aborted", "custom-message-not-built", "custom-message-unstable",
         "custom-message-failure", "auth-token-credential-id", "bot-user", "base-url"})
    @@ "plot" :> Options({"group", "series"},
        "style" :> {"area", "bad"} @@ "series/format" :> {"properties", "csv", "xml", "bad"}
        @@ "series/inclusion-flag" :> {"off", "bad"} @@ "series/xpath-type" :> {"node", "bad"},
        "series" :> In("series", {"file", "format", "label", "inclusion-flag", "exclude", "url", "display-table", "xpath",
                                  "xpath-type"}),
        {"title", "yaxis", "width", "height", "csv-file-name", "use-description", "exclude-zero-yaxis",
         "logarithmic-yaxis", "keep-records", "num-builds"})
    @@ "cloudfoundry" :> Options({"target", "organization", "space", "credentials-id"},
        "value" :> {"jenkinsConfig", "bad"},
        "create-services" :> In("create-services", {"name", "type", "plan", "reset-service"})
        @@ "environment-variables" :> In("environment-variables", {"key", "value"})
        @@ "services-names" :> In("services-names", {"name"}),
        {"self-signed", "reset-app", "timeout", "plugin-timeout", "manifest-file", "app-name", "memory", "host-name", "instances",
         "manifest-timeout", "no-route", "app-path", "build-pack", "stack", "command", "domain"})
    @@ "artifactory" :> Options({}, << >>, << >>, ArtifactoryProps \cup
        {"even-if-unstable", "pass-identified-downstream", "allow-promotion-of-non-staged-builds", "matrix-params",
         "release-repo-key", "snapshot-repo-key"})
    @@ "rocket" :> Options({}, "commit-info" :> {"authors", "bad"},
        "attachments" :> In("attachments",
            {"title", "title-link", "title-link-download", "color", "text", "collapsed", "message-link", "author-name",
             "author-link", "author-icon", "thumb", "image", "audio", "video"}),
        {"trust-ssl", "build-server", "channel", "start", "success", "abort", "not-built", "unstable", "failure",
         "back-to-normal", "repeated-failure", "include-test-summary", "include-test-log", "include-custom-message",
         "raw-message", "webhook-token", "webhook-token-credential-id", "custom-message"})
    @@ "cppcheck" :> Options({"pattern"}, << >>,
        "thresholds" :> In("thresholds", {"unstable", "new-unstable", "failure", "new-failure", "healthy", "unhealthy",
                                          "severity"})
        @@ "thresholds/severity" :> In("thresholds/severity", CppcheckKinds)
        @@ "graph" :> In("graph", {"xysize", "num-builds-in-graph", "display"})
        @@ "graph/display" :> In("graph/display", CppcheckKinds \cup {"sum"}),
        {"ignoreblankfiles", "allow-no-report"})
    @@ "performance" :> Options({}, "config-type" :> {"MRT", "bad"} @@ "report/bad" :> {"bad"},
        "report" :> In("report", {"jmeter", "junit", "bad"}),
        {"failed-threshold", "unstable-threshold", "unstable-response-time-threshold", "failed-threshold-positive",
         "failed-threshold-negative", "unstable-threshold-positive", "unstable-threshold-negative", "nth-build-number",
         "mode-relative-thresholds", "mode-of-threshold", "fail-build", "compare-build-previous",
         "mode-performance-per-test-case", "mode-thoughput"})
    @@ "git (publisher)" :> Options({}, << >>,
        "tags" :> In("tags", {"remote", "name", "message", "create-tag", "update-tag"})
        @@ "branches" :> In("branches", {"remote", "name", "rebase"})
        @@ "notes" :> In("notes", {"remote", "message", "namespace", "replace-note"}),
        {"push-merge", "push-only-if-success", "force-push"})
    @@ "trigger-parameterized-builds" :> Options({"project"},
        "@version" :> {"2.35.1"}
        @@ Each({"git-revision", "svn-revision", "current-parameters", "node-parameters"}, B),
        "git-revision" :> {"git-revision/combine-queued-commits"}
        @@ "boolean-parameters" :> {"boolean-parameters/value"},
        {"predefined-parameters", "combine-queued-commits", "property-file", "fail-on-missing", "property-multiline",
         "file-encoding", "use-matrix-child-files", "matrix-child-combination-filter", "only-exact-matrix-child-runs",
         "include-upstream", "restrict-matrix-project", "node-label-name", "node-label", "condition",
         "trigger-from-child-projects", "trigger-with-no-params"})
    @@ "test-fairy" :> Options({"apikey", "appfile", "keystorepath"},
        "platform" :> {"android", "ios", "bad"}
        @@ "max-duration" :> {"60m", "bad"} @@ "video-quality" :> {"low", "bad"}
        @@ "screenshot-interval" :> {"bad"}, << >>,
        {"tester-groups", "notify-testers", "autoupdate", "record-on-background", "data-only-wifi", "video-enabled",
         "cpu", "memory", "logs", "network", "phone-signal", "wifi", "gps", "battery", "opengl", "advanced-options",
         "proguard-file", "storepass", "alias", "keypass", "dSYM-file"})
    @@ "xunit" :> ReportOptions
    @@ "cloverphp" :> Options({"xml-location"}, Each(Metrics, {"bad"}),
        "html" :> In("html", {"dir", "archive"})
        @@ "metric-targets" :> In("metric-targets", {"healthy", "unhealthy", "failing"})
        @@ [t \in In("metric-targets", {"healthy", "unhealthy", "failing"}) |-> In(t, {"method", "statement"})], Metrics)
    @@ "cobertura" :> Options({"targets"}, << >>,
        "targets" :> {"targets/line"} @@ "targets/line" :> In("targets/line", {"healthy", "unhealthy", "failing"}),
        {"report-file", "only-stable", "fail-unhealthy", "fail-unstable", "health-auto-update", "stability-auto-update",
         "zoom-coverage-chart", "fail-no-reports", "source-encoding"})
    @@ "jabber" :> Options({}, "strategy" :> {"failure", "bad"} @@ "message" :> {"summary", "bad"}, << >>,
        {"group-targets", "individual-targets", "notify-on-build-start", "notify-scm-committers", "notify-scm-culprits",
         "notify-scm-fixers", "notify-upstream-committers"})
    @@ "ircbot" :> Options({}, "strategy" :> {"any-failure", "bad"} @@ "message-type" :> {"summary", "bad"}
        @@ "matrix-notifier" :> {"only-parent", "bad"},
        "channels" :> In("channels", {"name", "password", "notify-only"}),
        {"notify-start", "notify-committers", "notify-culprits", "notify-fixers", "notify-upstream"})

WrapperOptions ==
    "docker-custom-build-env" :> Options({}, "image-type" :> {"dockerfile", "pull", "another"},
        "volumes" :> In("volumes", {"host-path", "path"}),
        {"context-path", "dockerfile", "image", "host", "credentials-id", "docker-tool", "registry-credentials-id",
         "force-pull", "privileged", "verbose", "group", "command", "net", "memory-limit", "cpu-shares"})
    @@ "timeout" :> Options({},
        "@version" :> {"1.13", "1.14"} @@ "type" :> {"absolute", "no-activity", "likely-stuck", "elastic", "deadline", "bad"}
        @@ Each({"fail", "abort", "abort-and-restart"}, B), << >>,
        {"timeout", "timeout-var", "elastic-percentage", "elastic-number-builds", "elastic-default-timeout",
         "deadline-time", "deadline-tolerance", "write-description", "max-restarts"})
    @@ "build-keeper" :> Options({},
        "policy" :> {"by-day", "keep-since", "build-number", "keep-first-failed", "run-condition", "bad"}
        @@ "run-condition/type" :> {"always", "never", "boolean-condition", "cause-condition", "execute-shell",
                                    "execute-batch", "execution-node", "regexp-match", "strings-match"}
        @@ "run-condition/build-cause" :> {"SCM_CAUSE", "bad"},
        "run-condition" :> In("run-condition", {"type", "build-cause", "token", "exclusive-cause", "command",
                                                "allowed-nodes", "expression", "label", "arg1", "arg2", "ignore-case"}),
        {"build-period", "dont-keep-failed", "number-of-fails", "keep-build"})
    @@ "sauce-ondemand" :> Options({"platforms"}, "type" :> {"selenium", "webdriver", "another"}, << >>,
        {"enable-sauce-connect", "sauce-host", "sauce-port", "launch-sauce-connect-on-slave", "https-protocol",
         "sauce-connect-options", "override-username", "override-api-access-key", "starting-url"})
    @@ "credentials-binding" :> Options({}, "bad" :> {"dict"},
        [t \in DOMAIN wrappers!Bindings |->
            In(t, {"credential-id"} \cup {m[1] : m \in wrappers!Bindings[t].needs \cup wrappers!Bindings[t].may})],
        {})
    @@ "artifactory-generic" :> Options({}, "@version" :> {"2.2.0"}, << >>,
        {"name", "url", "key-from-text", "key-from-select", "repo-key", "snapshot-repo-key", "upload-spec",
         "download-spec", "upload-spec-file", "download-spec-file", "deploy-pattern", "resolve-pattern",
         "matrix-params", "deploy-build-info", "env-vars-include", "discard-old-builds", "discard-build-artifacts",
         "env-vars-include-patterns", "env-vars-exclude-patterns"})
    @@ "artifactory-maven-freestyle" :> Options({}, << >>, << >>, ArtifactoryProps \cup
        {"enable-resolve-artifacts", "disable-license-auto-discovery", "record-all-dependencies", "matrix-params",
         "deploy-release-repo-key", "deploy-snapshot-repo-key", "deploy-dynamic-mode", "resolve-staging-plugin",
         "release-repo-key", "snapshot-repo-key", "include-env-vars"})

(* Options of the sources and of the organization.                         *)
Properties(p) ==
    p :> In(p, {"suppress-scm-triggering", "pipeline-branch-durability-override", "trigger-build-on-pr-comment",
                "trigger-build-on-pr-review", "trigger-build-on-pr-update"})
    @@ (p \o "/suppress-scm-triggering") :>
           In(p \o "/suppress-scm-triggering", {"branch-regex", "suppression-strategy", "suppress-strategy"})
    @@ (p \o "/trigger-build-on-pr-comment") :> In(p \o "/trigger-build-on-pr-comment", {"comment", "allow-untrusted-users"})
    @@ (p \o "/trigger-build-on-pr-review") :> {p \o "/trigger-build-on-pr-review/allow-untrusted-users"}
    @@ (p \o "/trigger-build-on-pr-update") :> {p \o "/trigger-build-on-pr-update/allow-untrusted-users"}
PropertyChoices(p) ==
    Each({p \o "/suppress-scm-triggering", p \o "/trigger-build-on-pr-review", p \o "/trigger-build-on-pr-update"},
         {"true", "bad"})
    @@ (p \o "/suppress-scm-triggering/branch-regex") :> {"regex"}
    @@ (p \o "/suppress-scm-triggering/suppression-strategy") :> {"suppress-webhooks", "bad"}
    @@ (p \o "/pipeline-branch-durability-override") :> {"max-survivability", "bad"}
    @@ (p \o "/trigger-build-on-pr-comment") :> {"text", "true"}
    @@ Each({p \o "/trigger-build-on-pr-comment/allow-untrusted-users",
             p \o "/trigger-build-on-pr-review/allow-untrusted-users",
             p \o "/trigger-build-on-pr-update/allow-untrusted-users"}, {"true"})
Strategies(p) ==
    p :> In(p, {"tags", "regular-branches", "skip-initial-build", "change-request", "named-branches", "raw"})
    @@ (p \o "/tags") :> In(p \o "/tags", {"ignore-tags-newer-than", "ignore-tags-older-than"})
    @@ (p \o "/change-request") :> {p \o "/change-request/ignore-target-only-changes"}
    @@ (p \o "/named-branches") :> In(p \o "/named-branches", {"exact-name", "regex-name", "wildcards-name"})
    @@ (p \o "/named-branches/exact-name") :> In(p \o "/named-branches/exact-name", {"name", "case-sensitive"})
    @@ (p \o "/named-branches/regex-name") :> In(p \o "/named-branches/regex-name", {"regex", "case-sensitive"})
    @@ (p \o "/named-branches/wildcards-name") :> In(p \o "/named-branches/wildcards-name", {"includes", "excludes"})
    @@ (p \o "/raw") :> {p \o "/raw/xml"}
StrategyChoices(p) == Each({p \o "/regular-branches", p \o "/skip-initial-build"}, B)
All == "property-strategies/all-branches"
Defaults == "property-strategies/named-branches/defaults"
Exceptions == "property-strategies/named-branches/exceptions/properties"
Matches == {"build-strategies/all-strategies-match", "build-strategies/any-strategies-match"}
AllBranchesParts ==
    "property-strategies" :> {All, "property-strategies/named-branches", "property-strategies/bad"} @@ Properties(All)
AllBranchesChoices ==
    "property-strategies/bad" :> {"bad"} @@ "property-strategies/named-branches" :> {"dict"} @@ PropertyChoices(All)
NamedBranchesParts ==
    "property-strategies" :> {"property-strategies/named-branches"}
    @@ "property-strategies/named-branches" :> {Defaults, "property-strategies/named-branches/exceptions"}
    @@ "property-strategies/named-branches/exceptions" :>
           {"property-strategies/named-branches/exceptions/branch-name", Exceptions}
    @@ Properties(Defaults) @@ Properties(Exceptions)
NamedBranchesChoices ==
    PropertyChoices(Exceptions) @@ [o \in DOMAIN PropertyChoices(Defaults) |-> PropertyChoices(Defaults)[o] \ {"bad"}]
BuildParts ==
    "build-strategies" :> In("build-strategies", {"tags", "regular-branches", "skip-initial-build", "change-request",
                                                  "named-branches", "raw"}) \cup Matches
    @@ Strategies("build-strategies") @@ [m \in Matches |-> {m \o "/strategies"}]
    @@ Strategies("build-strategies/all-strategies-match/strategies")
    @@ Strategies("build-strategies/any-strategies-match/strategies")
BuildChoices ==
    StrategyChoices("build-strategies") @@ StrategyChoices("build-strategies/all-strategies-match/strategies")
    @@ StrategyChoices("build-strategies/any-strategies-match/strategies")
FilterParts ==
    LET of(o) == "head-pr-filter-behaviors/" \o o
    IN  "head-pr-filter-behaviors" :> {of("head-pr-destined-regex"), of("head-pr-destined-wildcard"),
                                       of("head-pr-originated-regex"), of("head-pr-originated-wildcard")}
        @@ [p \in {of("head-pr-destined-regex"), of("head-pr-originated-regex")} |-> In(p, {"branch-regexp", "tag-regexp"})]
        @@ [p \in {of("head-pr-destined-wildcard"), of("head-pr-originated-wildcard")} |->
               In(p, {"branch-includes", "branch-excludes", "tag-includes", "tag-excludes"})]
WildcardParts == "filter-by-name-wildcard" :> In("filter-by-name-wildcard", {"includes", "excludes"})
GithubParts ==
    FilterParts @@ "notification-context" :> In("notification-context", {"label", "suffix"})
    @@ "ssh-checkout" :> {"ssh-checkout/credentials"}
GithubChoices ==
    "branch-discovery" :> {"all", "false", "bad"} @@ "discover-pr-forks-strategy" :> {"both", "false", "bad"}
    @@ "discover-pr-origin" :> {"current", "false", "bad"} @@ "discover-pr-forks-trust" :> {"everyone", "bad"}
    @@ Each({"discover-tags", "disable-pr-notifications"}, B) @@ "notification-context" :> {"text"}
ExtensionParts ==
    "clean" :> {"clean/after", "clean/before", "clean/after/remove-stale-nested-repos",
                "clean/before/remove-stale-nested-repos"}
    @@ [c \in {"clean/after", "clean/before"} |-> {c \o "/remove-stale-nested-repos"}]
    @@ "sparse-checkout" :> {"sparse-checkout/paths"}
    @@ "submodule" :> In("submodule", {"disable", "recursive", "tracking", "threads", "parent-credentials",
                                       "reference-repo", "timeout"})
ExtensionChoices ==
    "clean" :> B @@ Each({"clean/after", "clean/before", "prune", "use-author", "lfs-pull", "wipe-workspace",
                          "skip-notifications"}, B)
Extensions == {"shallow-clone", "depth", "do-not-fetch-tags", "timeout"}

MultibranchOptions ==
    "git (source)" :> Options({"url"},
        BuildChoices @@ Each({"discover-branches", "discover-tags", "ignore-on-push-notifications"}, B),
        BuildParts @@ ExtensionParts,
        {"credentials-id", "head-filter-regex"} \cup Extensions)
    @@ "gerrit (source)" :> Options({"url"}, AllBranchesChoices @@ ExtensionChoices,
        AllBranchesParts @@ ExtensionParts @@ "change-discovery" :> {"change-discovery/query-string"}
        @@ "filter-checks" :> In("filter-checks", {"query-operator", "query-string"}),
        {"credentials-id", "includes", "excludes", "ignore-on-push-notifications", "api-uri", "refspecs",
         "head-filter-regex"} \cup Extensions)
    @@ "bitbucket (source)" :> Options({"repo-owner", "repo"},
        NamedBranchesChoices @@ "discover-pr-origin" :> {"mergeOnly", "bad"} @@ "discover-pr-forks-strategy" :> {"both", "bad"}
        @@ "discover-pr-forks-trust" :> {"nobody", "bad"} @@ "discover-branch" :> {"all", "bad"}
        @@ Each({"discover-tags", "lfs", "local-branch"}, B),
        ExtensionParts @@ FilterParts @@ WildcardParts @@ NamedBranchesParts
        @@ "checkout-over-ssh" :> {"checkout-over-ssh/credentials"},
        {"credentials-id", "server-url", "refspecs", "head-filter-regex"} \cup Extensions)
    @@ "github (source)" :> Options({"repo-owner", "repo"},
        GithubChoices @@ "status-checks/verbose-logs" :> B,
        ExtensionParts @@ GithubParts @@ WildcardParts
        @@ "status-checks" :> In("status-checks",
              {"name", "skip", "skip-branch-source-notifications", "publish-unstable-as-neutral",
               "suppress-log-output", "suppress-progress-updates", "verbose-logs"}),
        {"api-uri", "credentials-id", "head-filter-regex", "refspecs"} \cup Extensions)
    @@ "github-org" :> Options({"repo-owner"},
        GithubChoices @@ "exclude-archived-repositories" :> B,
        ExtensionParts @@ GithubParts,
        {"api-uri", "credentials-id", "head-filter-regex", "repo-name-regex", "refspecs"} \cup Extensions)
    @@ "multibranch" :> Options({},
        Each({"prune-dead-branches", "abort-builds"}, B \cup {"bad"}) @@ "periodic-folder-trigger" :> {"1d", "bad"}
        @@ "scm" :> {"git", "github", "bitbucket", "gerrit", "bad"} @@ "sandbox" :> B,
        << >>, {"days-to-keep", "number-to-keep", "script-id", "script-path"})
    @@ "githuborg" :> Options({},
        "github-org" :> {"dict"} @@ "prune-dead-branches" :> B \cup {"bad"} @@ "periodic-folder-trigger" :> {"1d", "bad"}
        @@ StrategyChoices("build-strategies"), Strategies("build-strategies"),
        {"days-to-keep", "number-to-keep", "script-path"})

MCOptions == BuilderOptions @@ MultibranchOptions @@ PublisherOptions @@ ScmOptions @@ TriggerOptions @@ WrapperOptions

-----------------------------------------------------------------------------
(* An option no condition reads has its own name for a value.  At most two *)
(* of the options conditions read are given with none or all of the rest,  *)
(* or one with one of the rest, or one that is always given is missing.    *)
(* A dictionary is given when one of its options is.                       *)
Plain(os, parts) == [o \in os |-> IF o \in DOMAIN parts THEN "dict" ELSE o]

InputsOf(options, base) ==
    LET plain(os) == Plain(os, options.parts)
        rest == options.rest \cup (UNION {options.parts[o] : o \in DOMAIN options.parts}
                                   \ (DOMAIN options.choices \cup DOMAIN options.parts \cup options.always))
        one == UNION {{o :> v : v \in options.choices[o]} : o \in DOMAIN options.choices}
               \cup {o :> "dict" : o \in DOMAIN options.parts \ options.always}
        none == {<< >>}
        always == base @@ plain(options.always)
        around(d) == [o \in {o \in DOMAIN options.parts : options.parts[o] \cap DOMAIN d # {}} |-> "dict"] @@ d
        closed(d) == around(around(around(around(around(d)))))
    IN  {closed(a @@ b @@ r @@ always) : a \in one \cup none, b \in one \cup none, r \in {<< >>, plain(rest)}}
        \cup {closed(a @@ (o :> o) @@ always) : a \in one \cup none, o \in rest}
        \cup {closed([a \in DOMAIN always \ {o} |-> always[a]]) : o \in DOMAIN always}

(* Choices without which others are not read.                              *)
Base ==
    "postbuildscript (old)" :> ("@version" :> "1.0") @@ "conditional-step" :> ("steps" :> "one")
    @@ "conditional-publisher" :> ("condition-kind" :> "always") @@ "githuborg" :> ("github-org" :> "dict")

(* gerrit_handle_legacy_configuration is the one that changes more of the  *)
(* data than it reads again: it is in a run of its own.                    *)
InputsFor(components) ==
    [c \in components |-> InputsOf(MCOptions[c], IF c \in DOMAIN Base THEN Base[c] ELSE << >>)]
AllButOldGerrit == InputsFor(DOMAIN MCOptions \ {"gerrit (old)"})
OldGerrit == InputsFor({"gerrit (old)"})

(* Entries of lists, two classes of one name, an id of several options, an *)
(* event with an old name too, and the credentials that slack writes twice.*)
MCLists ==
    {<<"map/entry", "string">>, <<"days/Day", "selected">>,
     <<"scriptFiles/ScriptFile", "role">>, <<"scriptFiles/ScriptFile", "filePath">>,
     <<"scriptFiles/ScriptFile/results", "string">>,
     <<"completedStatus/GhprbBuildResultMessage", "message">>, <<"messages/GhprbBuildResultMessage", "message">>,
     <<"TriggerBuilder/configs/BlockableBuildTriggerConfig", "projects">>,
     <<"RegexSCMHeadFilter", "regex">>, <<"WildcardSCMHeadFilter", "includes">>, <<"WildcardSCMHeadFilter", "excludes">>,
     <<"source", "id">>, <<"SlackNotifier", "authTokenCredentialId">>,
     <<"triggerOnEvents", "PluginPatchsetCreatedEvent">>}

(* What gitlab does not check for an old plugin, multijob and build-cause  *)
(* not at all (tuples and ranges are no lists for convert_mapping_to_xml)  *)
(* and timeout only for the exception it does not raise.                   *)
MCUnchecked ==
    {<<"gitlab", "triggerOpenMergeRequestOnPush">>, <<"multijob", "killPhaseOnJobResultCondition">>,
     <<"multijob", "continuationCondition">>, <<"multijob", "executionType">>, <<"conditional-step", "buildCause">>,
     <<"timeout", "timeoutType">>}

(* skip-notifications of git is for the sources only; the file-exists of   *)
(* conditional-publisher reads "%s-basedir"; the others are read under     *)
(* another name: timeout, env-vars-include, deploy-release-repo-key,       *)
(* deploy-snapshot-repo-key and suppression-strategy.                      *)
MCDead ==
    {<<"git", "skip-notifications">>, <<"conditional-publisher", "condition-basedir">>,
     <<"cloudfoundry", "plugin-timeout">>}
    \cup {"artifactory-maven-freestyle"} \X {"include-env-vars", "release-repo-key", "snapshot-repo-key"}
    \cup {"bitbucket (source)"}
          \X {p \o "/suppress-scm-triggering/suppress-strategy" : p \in {Defaults, Exceptions}}
    \cup {<<"gerrit (source)", All \o "/suppress-scm-triggering/suppress-strategy">>}

(* Those whose documentation is theirs alone: git shares the text about    *)
(* its extensions with the sources.                                        *)
WithDeadOptions == InputsFor({o[1] : o \in MCDead} \ {"git"})
==============================================================================
