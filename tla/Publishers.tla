------------------------------ MODULE Publishers ------------------------------
(***************************************************************************)
(* Components of jenkins_jobs/modules/publishers.py.                       *)
(***************************************************************************)
EXTENDS Helpers

builders == INSTANCE Builders

PostBuildScriptVersions == <<"1.0", "2.0">>

(* A script, or a list of builders, for plugins of version 2.  A wrong     *)
(* execute-on crashes: its message is formatted without the value.         *)
post_build_script(d, list, parent, content) ==
    When(Given(d, list),
         Xml(parent \o "/results", d, {<<list \o "/build-on", "string">>})
         (+) LookupValue(d, list \o "/execute-on")
         (+) Optional(parent, d, {<<list \o "/execute-on", "executeOn">>})
         (+) Xml(parent, d, {<<list \o "/role", "role">>} \cup content))

(* For older plugins a script is a name and nothing else.                  *)
old_post_build_scripts(d) ==
    Optional("GenericScript", d, {<<"generic-script", "filePath">>})
    (+) Optional("GroovyScriptFile", d, {<<"groovy-script", "filePath">>})
    (+) Optional("GroovyScriptContent", d, {<<"groovy", "content">>})
    (+) Optional("buildSteps", d, {<<"builders", "DISPATCH">>})
    (+) Xml("PostBuildScript", d,
            {<<IF Given(d, "script-only-if-succeeded") THEN "script-only-if-succeeded" ELSE "onsuccess",
               "scriptOnlyIfSuccess">>,
             <<IF Given(d, "script-only-if-failed") THEN "script-only-if-failed" ELSE "onfailure",
               "scriptOnlyIfFailure">>})
    (+) LookupValue(d, "execute-on") (+) Optional("PostBuildScript", d, {<<"execute-on", "executeOn">>})

postbuildscript(d) ==
    IF AtLeast(d, PostBuildScriptVersions, "2.0")
    THEN Xml("config", d, {<<"mark-unstable-if-failed", "markBuildUnstable">>})
         (+) post_build_script(d, "generic-script", "scriptFiles/ScriptFile", {<<"generic-script/file-path", "filePath">>})
         (+) post_build_script(d, "groovy-script", "scriptFiles/ScriptFile", {<<"groovy-script/file-path", "filePath">>})
         (+) post_build_script(d, "groovy", "groovyScripts/Script", {<<"groovy/content", "content">>})
         (+) post_build_script(d, "builders", "buildSteps/PostBuildStep", {})
         (+) When(Given(d, "builders"), Lookup(d, {"builders/build-steps"})
                  (+) Xml("PostBuildStep/buildSteps", d, {<<"builders/build-steps", "DISPATCH">>}))
    ELSE Xml("PostBuildScript", d, {<<"mark-unstable-if-failed", "markBuildUnstable">>})
         (+) old_post_build_scripts(d)

-----------------------------------------------------------------------------
FlexiblePublishVersions == <<"0.10", "0.11", "0.13">>

(* The directory of a file is asked for under a name that was never        *)
(* completed, so it is the workspace whatever the data says.               *)
publish_condition_tag(d, prefix, tag) ==
    LET opt(o) == prefix \o o
        is(kinds) == IsOneOf(d, prefix \o "-kind", kinds)
        text(parent, o, element) == Lookup(d, {opt(o)}) (+) Xml(parent, d, {<<opt(o), element>>})
        threshold(o, element) == Lookup(d, {opt(o)}) (+) Choice(tag \o "/" \o element, d, {<<opt(o), "name">>})
    IN  Lookup(d, {opt("-kind")})
        (+) RefuseIf(is({"bad"}))
        (+) When(is({"boolean-expression"}), text(tag, "-expression", "token"))
        (+) When(is({"current-status"}), threshold("-worst", "worstResult") (+) threshold("-best", "bestResult"))
        (+) When(is({"shell", "windows-shell"}), text(tag, "-command", "command"))
        (+) When(is({"regexp"}), text(tag, "-expression", "expression") (+) text(tag, "-searchtext", "label"))
        (+) When(is({"file-exists"}), text(tag, "-filename", "file"))

publish_action(d) ==
    RefuseIf(~Given(d, "action"))
    (+) IF AtLeast(d, FlexiblePublishVersions, "0.13") THEN Xml("publisherList", d, {<<"action", "DISPATCH">>})
        ELSE RefuseIf(Is(d, "action", "many")) (+) Xml("ConditionalPublisher", d, {<<"action", "publisher">>})

conditional_publisher(d) ==
    publish_condition_tag(d, "condition", "condition")
    (+) When(On(d, "condition-aggregation"),
             RefuseIf(~AtLeast(d, FlexiblePublishVersions, "0.11"))
             (+) publish_condition_tag(d, "condition-aggregation", "aggregationCondition"))
    (+) Choice("ConditionalPublisher", d, {<<"on-evaluation-failure", "runner">>})
    (+) publish_action(d)

-----------------------------------------------------------------------------
Levels == {<<"all", "All">>, <<"high", "High">>, <<"normal", "Normal">>, <<"low", "Low">>}
Kinds == {<<"total", "Total">>, <<"new", "New">>}

tasks(d) ==
    LET limit(status, kind) ==
            {<<"status-thresholds/" \o status \o "-" \o kind[1] \o "-" \o l[1], status \o kind[2] \o l[2]>> : l \in Levels}
    IN  Optional("TasksPublisher", d,
            {<<"files-to-scan", "pattern">>, <<"files-to-exclude", "excludePattern">>, <<"tasks-tags-high", "high">>,
             <<"tasks-tags-normal", "normal">>, <<"tasks-tags-low", "low">>})
        (+) Xml("TasksPublisher", d,
                {<<"compute-new-warnings", "dontComputeNew">>, <<"ignore-case", "ignoreCase">>,
                 <<"regular-expression", "asRegexp">>, <<"run-always", "canRunOnFailed">>,
                 <<"detect-module", "shouldDetectModules">>, <<"health-thresholds-100", "healthy">>,
                 <<"health-thresholds-0", "unHealthy">>, <<"health-priorities", "thresholdLimit">>,
                 <<"use-delta", "useDeltaValues">>, <<"use-prev-build-as-ref", "usePreviousBuildAsReference">>,
                 <<"only-use-stable-as-ref", "useStableBuildAsReference">>, <<"default-encoding", "defaultEncoding">>})
        (+) Xml("thresholds", d, UNION {limit(status, kind) : status \in {"unstable", "failed"}, kind \in Kinds})

warnings(d) ==
    LET limit(status, kind) ==
            {<<kind[1] \o "-thresholds/" \o status \o "/" \o kind[1] \o "-" \o l[1], status \o kind[2] \o l[2]>> : l \in Levels}
        limits == UNION {limit(status, kind) : status \in {"unstable", "failed"}, kind \in Kinds}
    IN  Optional("ConsoleParser", d, {<<"console-log-parsers", "parserName">>})
        (+) When(Given(d, "workspace-file-scanners"),
                 Required("ParserConfiguration", d, {<<"workspace-file-scanners/file-pattern", "pattern">>})
                 (+) Xml("ParserConfiguration", d, {<<"workspace-file-scanners/scanner", "parserName">>}))
        (+) Xml("WarningsPublisher", d,
                {<<"files-to-include", "includePattern">>, <<"files-to-ignore", "excludePattern">>,
                 <<"messages-to-ignore", "messagesPattern">>, <<"categories-to-ignore", "categoriesPattern">>,
                 <<"plugin-name", "pluginName">>, <<"run-always", "canRunOnFailed">>,
                 <<"detect-modules", "shouldDetectModules">>, <<"health-threshold-high", "healthy">>,
                 <<"health-threshold-low", "unHealthy">>})
        (+) Choice("WarningsPublisher", d, {<<"health-priorities", "thresholdLimit">>})
        (+) Xml("WarningsPublisher", d, {<<"default-encoding", "defaultEncoding">>,
                                         <<"resolve-relative-paths", "doNotResolveRelativePaths">>})
        (+) Xml("thresholds", d, limits)
        (+) When(AnyOf(d, {"new-thresholds/unstable", "new-thresholds/failed"}),
                 Xml("WarningsPublisher", d,
                     {<<"use-delta-for-new-warnings", "useDeltaValues">>,
                      <<"use-previous-build-as-reference", "usePreviousBuildAsReference">>,
                      <<"only-use-stable-builds-as-reference", "useStableBuildAsReference">>}))

google_cloud_storage(d) ==
    LET opt(type, o) == "uploads/" \o type \o "/" \o o
        stored(type, element, name, tag) ==
            When(Given(d, "uploads/" \o type),
                 Required(element, d, {<<opt(type, "storage-location"), "bucketNameWithVars">>, <<opt(type, name), tag>>})
                 (+) Xml(element, d, {<<opt(type, "share-publicly"), "sharedPublicly">>,
                                      <<opt(type, "upload-for-failed-jobs"), "forFailedJobs">>,
                                      <<opt(type, "show-inline"), "showInline">>,
                                      <<opt(type, "strip-prefix"), "pathPrefix">>}))
    IN  Required("GoogleCloudStorageUploader", d, {<<"credentials-id", "credentialsId">>})
        (+) Lookup(d, {"uploads"})
        (+) RefuseIf(Given(d, "uploads/bad"))
        (+) When(Given(d, "uploads/expiring-elements"),
                 Required("ExpiringBucketLifecycleManager", d,
                          {<<opt("expiring-elements", "bucket-name"), "bucketNameWithVars">>,
                           <<opt("expiring-elements", "days-to-retain"), "bucketObjectTTL">>}))
        (+) stored("build-log", "StdoutUpload", "log-name", "logName")
        (+) stored("classic", "ClassicUpload", "file-pattern", "sourceGlobWithVars")

-----------------------------------------------------------------------------
EmailExtVersions == <<"2.38", "2.39">>

(* Recipients an old plugin knows have a flag; a new plugin has elements   *)
(* for the recipients that are given.                                      *)
base_email_ext(d, type) ==
    LET email == type \o "/email"
        new == AtLeast(d, EmailExtVersions, "2.39")
    IN  When(Given(d, "send-to"),
             IF new THEN Optional(email \o "/recipientProviders", d,
                             {<<"send-to/developers", "DevelopersRecipientProvider">>,
                              <<"send-to/requester", "RequesterRecipientProvider">>,
                              <<"send-to/culprits", "CulpritsRecipientProvider">>,
                              <<"send-to/recipients", "ListRecipientProvider">>,
                              <<"send-to/failing-test-suspects-recipients", "FailingTestSuspectsRecipientProvider">>,
                              <<"send-to/first-failing-build-suspects-recipients",
                                "FirstFailingBuildSuspectsRecipientProvider">>,
                              <<"send-to/upstream-committers", "UpstreamComitterRecipientProvider">>})
             ELSE Xml(email, d,
                      {<<"send-to/developers", "sendToDevelopers">>, <<"send-to/requester", "sendToRequester">>,
                       <<"send-to/culprits", "includeCulprits">>, <<"send-to/recipients", "sendToRecipientList">>}))
        (+) When(type = "ScriptTrigger", Xml(type, d, {<<"trigger-script", "triggerScript">>}))
        (+) When(new, Xml(email, d, {<<"attachments", "attachmentsPattern">>, <<"attach-build-log", "attachBuildLog">>,
                                     <<"compress-log", "compressBuildLog">>}))

EmailTriggers ==
    {<<"always", "AlwaysTrigger">>, <<"unstable", "UnstableTrigger">>, <<"first-failure", "FirstFailureTrigger">>,
     <<"first-unstable", "FirstUnstableTrigger">>, <<"not-built", "NotBuiltTrigger">>, <<"aborted", "AbortedTrigger">>,
     <<"regression", "RegressionTrigger">>, <<"second-failure", "SecondFailureTrigger">>,
     <<"improvement", "ImprovementTrigger">>, <<"still-failing", "StillFailingTrigger">>,
     <<"success", "SuccessTrigger">>, <<"fixed", "FixedTrigger">>, <<"fixed-unhealthy", "FixedUnhealthyTrigger">>,
     <<"still-unstable", "StillUnstableTrigger">>, <<"pre-build", "PreBuildTrigger">>}

(* Each trigger has the same email; the one on failure is there unless it  *)
(* is refused.                                                             *)
email_ext(d) ==
    LET on == {t[2] : t \in {t \in EmailTriggers : On(d, t[1])}}
              \cup (IF Off(d, "failure") THEN {} ELSE {"FailureTrigger"})
              \cup (IF Given(d, "trigger-script") THEN {"ScriptTrigger"} ELSE {})
    IN  Xml("ExtendedEmailPublisher", d, {<<"recipients", "recipientList">>})
        (+) Switch("configuredTriggers", d, EmailTriggers)
        (+) [outcome |-> "written", xml |-> UNION {base_email_ext(d, type).xml : type \in on}]
        (+) Choice("ExtendedEmailPublisher", d, {<<"content-type", "contentType">>})
        (+) Xml("ExtendedEmailPublisher", d,
                {<<"subject", "defaultSubject">>, <<"body", "defaultContent">>, <<"attachments", "attachmentsPattern">>,
                 <<"presend-script", "presendScript">>, <<"postsend-script", "postsendScript">>,
                 <<"attach-build-log", "attachBuildLog">>, <<"compress-log", "compressBuildLog">>,
                 <<"save-output", "saveOutput">>, <<"disable-publisher", "disabled">>, <<"reply-to", "replyTo">>})
        (+) When(AtLeast(d, EmailExtVersions, "2.39"), Xml("ExtendedEmailPublisher", d, {<<"from", "from">>}))
        (+) RefuseIf(Is(d, "matrix-trigger", "bad"))
        (+) Optional("ExtendedEmailPublisher", d, {<<"matrix-trigger", "matrixTriggerMode">>})

-----------------------------------------------------------------------------
(* The names of old settings become the new ones, in the data: they are    *)
(* not heard when the new ones are given too.                              *)
CheckstyleNames ==
    {<<"unHealthy", "unhealthy">>, <<"healthThreshold", "health-threshold">>, <<"defaultEncoding", "default-encoding">>,
     <<"canRunOnFailed", "can-run-on-failed">>, <<"shouldDetectModules", "should-detect-modules">>}
    \cup UNION {{<<p \o "totalAll", p \o "total-all">>, <<p \o "totalHigh", p \o "total-high">>,
                 <<p \o "totalNormal", p \o "total-normal">>, <<p \o "totalLow", p \o "total-low">>} :
                    p \in {"thresholds/unstable/", "thresholds/failed/"}}

(* As a bug would have it: data[new] = data.pop(old, None), also when only  *)
(* the new name is there.                                                  *)
convert_settingsPopped(d) ==
    LET renamed == {n \in CheckstyleNames : Given(d, n[1])}
        new == {n[2] : n \in renamed}
        old(o) == (CHOOSE n \in renamed : n[2] = o)[1]
    IN  [o \in (DOMAIN d \ UNION {{n[1], n[2]} : n \in CheckstyleNames}) \cup new |->
            IF o \in new THEN d[old(o)] ELSE d[o]]

convert_settings(d) ==
    LET renamed == {n \in CheckstyleNames : Given(d, n[1])}
        new == {n[2] : n \in renamed}
        old(o) == (CHOOSE n \in renamed : n[2] = o)[1]
    IN  [o \in (DOMAIN d \ {n[1] : n \in renamed}) \cup new |-> IF Given(d, o) THEN d[o] ELSE d[old(o)]]

checkstyle(d) == build_trends_publisher("CheckStylePublisher", convert_settings(d))

SlackVersions == <<"1.0", "2.0">>

(* A message is never asked for when include-custom-message says so: the   *)
(* test is on the data of the component, which is not False.               *)
slack(d) ==
    LET required == {<<"team-domain", "teamDomain">>, <<"auth-token", "authToken">>,
                     <<"auth-token-id", "authTokenCredentialId">>, <<"room", "room">>}
    IN  Xml("SlackNotifier", d, {<<"build-server-url", "buildServerUrl">>})
        (+) IF ~AtLeast(d, SlackVersions, "2.0") THEN Required("SlackNotifier", d, required)
            ELSE Xml("SlackNotifier", d, required)
                 (+) Choice("SlackNotifier", d, {<<"commit-info-choice", "commitInfoChoice">>})
                 (+) Xml("SlackNotifier", d,
                 {<<"notify-start", "startNotification">>, <<"notify-success", "notifySuccess">>,
                  <<"notify-aborted", "notifyAborted">>, <<"notify-not-built", "notifyNotBuilt">>,
                  <<"notify-unstable", "notifyUnstable">>, <<"notify-failure", "notifyFailure">>,
                  <<"notify-every-failure", "notifyEveryFailure">>,
                  <<"notify-back-to-normal", "notifyBackToNormal">>, <<"notify-regression", "notifyRegression">>,
                  <<"notify-repeated-failure", "notifyRepeatedFailure">>,
                  <<"include-test-summary", "includeTestSummary">>, <<"include-failed-tests", "includeFailedTests">>,
                  <<"include-custom-message", "includeCustomMessage">>, <<"custom-message", "customMessage">>,
                  <<"custom-message-success", "customMessageSuccess">>,
                  <<"custom-message-aborted", "customMessageAborted">>,
                  <<"custom-message-not-built", "customMessageNotBuilt">>,
                  <<"custom-message-unstable", "customMessageUnstable">>,
                  <<"custom-message-failure", "customMessageFailure">>,
                  <<"auth-token-credential-id", "authTokenCredentialId">>, <<"bot-user", "botUser">>,
                  <<"base-url", "baseUrl">>})

Series == "properties" :> "PropertiesSeries" @@ "csv" :> "CSVSeries" @@ "xml" :> "XMLSeries"

plot(d) ==
    LET of(o) == "series/" \o o
        format(f) == Is(d, of("format"), f)
    IN  Required("Plot", d, {<<"group", "group">>})
        (+) Choice("Plot", d, {<<"style", "style">>})
        (+) Xml("Plot", d, {<<"title", "title">>, <<"yaxis", "yaxis">>, <<"width", "width">>, <<"height", "height">>,
                            <<"csv-file-name", "csvFileName">>, <<"use-description", "useDescr">>,
                            <<"exclude-zero-yaxis", "exclZero">>, <<"logarithmic-yaxis", "logarithmic">>,
                            <<"keep-records", "keepRecords">>, <<"num-builds", "numBuilds">>})
        (+) Lookup(d, {"series"})
        (+) RefuseIf(~IsOneOf(d, of("format"), DOMAIN Series))
        (+) Xml(Series[d[of("format")]], d, {<<of("file"), "file">>, <<of("format"), "fileType">>})
        (+) When(format("properties"), Xml("PropertiesSeries", d, {<<of("label"), "label">>}))
        (+) When(format("csv"),
                 Choice("CSVSeries", d, {<<of("inclusion-flag"), "inclusionFlag">>})
                 (+) Xml("CSVSeries", d, {<<of("exclude"), "exclusionValues">>, <<of("url"), "url">>,
                                          <<of("display-table"), "displayTableFlag">>})
                 (+) Optional("strExclusionSet", d, {<<of("exclude"), "string">>}))
        (+) When(format("xml"),
                 Choice("XMLSeries", d, {<<of("xpath-type"), "nodeTypeString">>})
                 (+) Xml("XMLSeries", d, {<<of("url"), "url">>, <<of("xpath"), "xpathString">>}))

cloud_foundry(d) ==
    Required("CloudFoundryPushPublisher", d,
             {<<"target", "target">>, <<"organization", "organization">>, <<"space", "cloudSpace">>,
              <<"credentials-id", "credentialsId">>})
    (+) Xml("CloudFoundryPushPublisher", d, {<<"self-signed", "selfSigned">>, <<"reset-app", "resetIfExists">>,
                                             <<"timeout", "pluginTimeout">>})
    (+) When(Given(d, "create-services"),
             Xml("Service", d, {<<"create-services/name", "name">>, <<"create-services/type", "type">>,
                                <<"create-services/plan", "plan">>, <<"create-services/reset-service", "resetService">>}))
    (+) Choice("manifestChoice", d, {<<"value", "value">>})
    (+) Xml("manifestChoice", d,
            {<<"manifest-file", "manifestFile">>, <<"app-name", "appName">>, <<"memory", "memory">>,
             <<"host-name", "hostname">>, <<"instances", "instances">>, <<"manifest-timeout", "timeout">>,
             <<"no-route", "noRoute">>, <<"app-path", "appPath">>, <<"build-pack", "buildpack">>, <<"stack", "stack">>,
             <<"command", "command">>, <<"domain", "domain">>})
    (+) When(Given(d, "environment-variables"),
             Xml("EnvironmentVariable", d, {<<"environment-variables/key", "key">>,
                                            <<"environment-variables/value", "value">>}))
    (+) When(Given(d, "services-names"), Xml("ServiceName", d, {<<"services-names/name", "name">>}))

-----------------------------------------------------------------------------
artifactory(d) ==
    artifactory_optional_props("ArtifactoryRedeployPublisher", d, "publishers")
    (+) Xml("ArtifactoryRedeployPublisher", d, {<<"matrix-params", "matrixParams">>})
    (+) Xml("details", d, {<<"release-repo-key", "repositoryKey">>, <<"snapshot-repo-key", "snapshotsRepositoryKey">>})
    (+) artifactory_patterns("ArtifactoryRedeployPublisher", d)

rocket(d) ==
    Optional("RocketChatNotifier", d, {<<"trust-ssl", "trustSSL">>, <<"build-server", "buildServerUrl">>})
    (+) Choice("RocketChatNotifier", d, {<<"commit-info", "commitInfoChoice">>})
    (+) Xml("RocketChatNotifier", d,
            {<<"channel", "channel">>, <<"start", "startNotification">>, <<"success", "notifySuccess">>,
             <<"abort", "notifyAborted">>, <<"not-built", "notifyNotBuilt">>, <<"unstable", "notifyUnstable">>,
             <<"failure", "notifyFailure">>, <<"back-to-normal", "notifyBackToNormal">>,
             <<"repeated-failure", "notifyRepeatedFailure">>, <<"include-test-summary", "includeTestSummary">>,
             <<"include-test-log", "includeTestLog">>, <<"include-custom-message", "includeCustomMessage">>,
             <<"raw-message", "rawMessage">>, <<"webhook-token", "webhookToken">>,
             <<"webhook-token-credential-id", "webhookTokenCredentialId">>, <<"custom-message", "customMessage">>})
    (+) When(Given(d, "attachments"),
             Required("MessageAttachment", d, {<<"attachments/title", "title">>})
             (+) Optional("MessageAttachment", d,
                 {<<"attachments/title-link", "titleLink">>, <<"attachments/title-link-download", "titleLinkDownload">>,
                  <<"attachments/color", "color">>, <<"attachments/text", "text">>,
                  <<"attachments/collapsed", "collapsed">>, <<"attachments/message-link", "messageLink">>,
                  <<"attachments/author-name", "authorName">>, <<"attachments/author-link", "authorLink">>,
                  <<"attachments/author-icon", "authorIcon">>, <<"attachments/thumb", "thumbUrl">>,
                  <<"attachments/image", "imageUrl">>, <<"attachments/audio", "audioUrl">>,
                  <<"attachments/video", "videoUrl">>}))

(* The display of the graph is an option of the graph, the severity one    *)
(* of the thresholds.                                                      *)
cppcheck(d) ==
    LET kinds(p, prefix, suffix) ==
            {<<p \o k[1], prefix \o k[2] \o suffix>> :
                k \in {<<"error", "Error">>, <<"warning", "Warning">>, <<"style", "Style">>,
                       <<"performance", "Performance">>, <<"information", "Information">>,
                       <<"nocategory", "NoCategory">>, <<"portability", "Portability">>}}
    IN  Required("cppcheckConfig", d, {<<"pattern", "pattern">>})
        (+) Xml("cppcheckConfig", d, {<<"ignoreblankfiles", "ignoreBlankFiles">>, <<"allow-no-report", "allowNoReport">>})
        (+) Xml("configSeverityEvaluation", d,
                {<<"thresholds/unstable", "threshold">>, <<"thresholds/new-unstable", "newThreshold">>,
                 <<"thresholds/failure", "failureThreshold">>, <<"thresholds/new-failure", "newFailureThreshold">>,
                 <<"thresholds/healthy", "healthy">>, <<"thresholds/unhealthy", "unHealthy">>}
                \cup kinds("thresholds/severity/", "severity", ""))
        (+) Xml("configGraph", d,
                {<<"graph/xysize", "xSize">>, <<"graph/xysize", "ySize">>,
                 <<"graph/num-builds-in-graph", "numBuildsInGraph">>, <<"graph/display/sum", "displayAllErrors">>}
                \cup kinds("graph/display/", "display", "Severity"))

performance(d) ==
    Choice("PerformancePublisher", d, {<<"config-type", "configType">>})
    (+) Xml("PerformancePublisher", d,
            {<<"failed-threshold", "errorFailedThreshold">>, <<"unstable-threshold", "errorUnstableThreshold">>,
             <<"unstable-response-time-threshold", "errorUnstableResponseTimeThreshold">>,
             <<"failed-threshold-positive", "relativeFailedThresholdPositive">>,
             <<"failed-threshold-negative", "relativeFailedThresholdNegative">>,
             <<"unstable-threshold-positive", "relativeUnstableThresholdPositive">>,
             <<"unstable-threshold-negative", "relativeUnstableThresholdNegative">>,
             <<"nth-build-number", "nthBuildNumber">>, <<"mode-relative-thresholds", "modeRelativeThresholds">>,
             <<"mode-of-threshold", "modeOfThreshold">>, <<"fail-build", "failBuildIfNoResultFile">>,
             <<"compare-build-previous", "compareBuildPrevious">>,
             <<"mode-performance-per-test-case", "modePerformancePerTestCase">>,
             <<"mode-thoughput", "modeThroughput">>})
    (+) RefuseIf(Given(d, "report/bad"))
    (+) Optional("JMeterParser", d, {<<"report/jmeter", "glob">>})
    (+) Optional("JUnitParser", d, {<<"report/junit", "glob">>})

git(d) ==
    LET pushed(list, element, name, mapping) ==
            When(Given(d, list),
                 Required(element, d, {<<list \o "/" \o name[1], name[2]>>})
                 (+) Xml(element, d, {<<list \o "/" \o m[1], m[2]>> : m \in mapping \cup {<<"remote", "targetRepoName">>}}))
    IN  Xml("GitPublisher", d, {<<"push-merge", "pushMerge">>, <<"push-only-if-success", "pushOnlyIfSuccess">>,
                                <<"force-push", "forcePush">>})
        (+) pushed("tags", "TagToPush", <<"name", "tagName">>,
                   {<<"message", "tagMessage">>, <<"create-tag", "createTag">>, <<"update-tag", "updateTag">>})
        (+) pushed("branches", "BranchToPush", <<"name", "branchName">>, {<<"rebase", "rebaseBeforePush">>})
        (+) pushed("notes", "NoteToPush", <<"message", "noteMsg">>,
                   {<<"namespace", "noteNamespace">>, <<"replace-note", "noteReplace">>})

trigger_parameterized_builds(d) ==
    trigger_project(d)
    (+) Lookup(d, {"project"})
    (+) Xml("BuildTriggerConfig", d, {<<"project", "projects">>, <<"condition", "condition">>,
                                      <<"trigger-from-child-projects", "triggerFromChildProjects">>,
                                      <<"trigger-with-no-params", "triggerWithNoParameters">>})

test_fairy(d) ==
    RefuseIf(~IsOneOf(d, "platform", {"android", "ios"}))
    (+) IF Is(d, "platform", "android")
        THEN test_fairy_common("TestFairyAndroidRecorder", d)
             (+) Required("TestFairyAndroidRecorder", d, {<<"keystorepath", "keystorePath">>})
             (+) Xml("TestFairyAndroidRecorder", d, {<<"proguard-file", "mappingFile">>, <<"storepass", "storepass">>,
                                                     <<"alias", "alias">>, <<"keypass", "keypass">>})
        ELSE test_fairy_common("TestFairyIosRecorder", d)
             (+) Xml("TestFairyIosRecorder", d, {<<"dSYM-file", "mappingFile">>})

-----------------------------------------------------------------------------
(* The publisher is the builder of that name, in another element.          *)
xunit(d) == builders!xunit_report("xunit", d)

(* The report is archived as HTML unless it is not wanted; a target is a   *)
(* number of percents, and healthy builds have one by default.             *)
cloverphp(d) ==
    LET metric(target, type) == <<"metric-targets/" \o target \o "/" \o type, type \o "Coverage">>
        types == {"method", "statement"}
    IN  RefuseIf(~Given(d, "xml-location"))
        (+) RefuseIf(Given(d, "html") /\ ~Given(d, "html/dir"))
        (+) Optional("CloverPHPPublisher", d, {<<"html/dir", "reportDir">>})
        (+) Xml("CloverPHPPublisher", d, {<<"xml-location", "xmlLocation">>, <<"html/archive", "disableArchiving">>})
        (+) RefuseIf(\E t \in types : \E target \in {"healthy", "unhealthy", "failing"} : Is(d, metric(target, t)[1], "bad"))
        (+) When(~Given(d, "metric-targets/healthy"), Xml("healthyTarget", d, {metric("healthy", t) : t \in types}))
        (+) Optional("healthyTarget", d, {metric("healthy", t) : t \in types})
        (+) Optional("unhealthyTarget", d, {metric("unhealthy", t) : t \in types})
        (+) Optional("failingTarget", d, {metric("failing", t) : t \in types})

(* The targets are read even if there are none.                            *)
cobertura(d) ==
    Xml("CoberturaPublisher", d,
        {<<"report-file", "coberturaReportFile">>, <<"only-stable", "onlyStable">>, <<"fail-unhealthy", "failUnhealthy">>,
         <<"fail-unstable", "failUnstable">>, <<"health-auto-update", "autoUpdateHealth">>,
         <<"stability-auto-update", "autoUpdateStability">>, <<"zoom-coverage-chart", "zoomCoverageChart">>,
         <<"fail-no-reports", "failNoReports">>, <<"source-encoding", "sourceEncoding">>})
    (+) Lookup(d, {"targets"})
    (+) When(Given(d, "targets/line"),
             Xml("healthyTarget/targets/entry", d, {<<"targets/line/healthy", "int">>})
             (+) Xml("unhealthyTarget/targets/entry", d, {<<"targets/line/unhealthy", "int">>})
             (+) Xml("failingTarget/targets/entry", d, {<<"targets/line/failing", "int">>}))

jabber(d) ==
    Optional("GroupChatIMMessageTarget", d, {<<"group-targets", "name">>})
    (+) Optional("DefaultIMMessageTarget", d, {<<"individual-targets", "value">>})
    (+) Choice("JabberPublisher", d, {<<"strategy", "strategy">>, <<"message", "buildToChatNotifier">>})
    (+) Xml("JabberPublisher", d,
            {<<"notify-on-build-start", "notifyOnBuildStart">>, <<"notify-scm-committers", "notifySuspects">>,
             <<"notify-scm-culprits", "notifyCulprits">>, <<"notify-scm-fixers", "notifyFixers">>,
             <<"notify-upstream-committers", "notifyUpstreamCommitters">>})

ircbot(d) ==
    Choice("IrcPublisher", d, {<<"message-type", "buildToChatNotifier">>})
    (+) When(Given(d, "channels"),
             Xml("GroupChatIMMessageTarget", d, {<<"channels/name", "name">>, <<"channels/password", "password">>,
                                                 <<"channels/notify-only", "notificationOnly">>}))
    (+) Choice("IrcPublisher", d, {<<"strategy", "strategy">>, <<"matrix-notifier", "matrixMultiplier">>})
    (+) Xml("IrcPublisher", d,
            {<<"notify-start", "notifyOnBuildStart">>, <<"notify-committers", "notifySuspects">>,
             <<"notify-culprits", "notifyCulprits">>, <<"notify-fixers", "notifyFixers">>,
             <<"notify-upstream", "notifyUpstreamCommitters">>})
==============================================================================
