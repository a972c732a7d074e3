-------------------------------- MODULE Helpers --------------------------------
(***************************************************************************)
(* The functions of jenkins_jobs/modules/helpers.py that several           *)
(* components are written with.                                            *)
(***************************************************************************)
EXTENDS XmlMapping

(* Limits on new warnings are left out unless new warnings are computed.   *)
build_trends_publisher(parent, d) ==
    LET limits(status, kind) ==
            {<<"thresholds/" \o status \o "/" \o kind[1] \o "-" \o level[1], status \o kind[2] \o level[2]>> :
                level \in {<<"all", "All">>, <<"high", "High">>, <<"normal", "Normal">>, <<"low", "Low">>}}
        kinds == {<<"total", "Total">>} \cup (IF Off(d, "dont-compute-new") THEN {<<"new", "New">>} ELSE {})
    IN  Choice(parent, d, {<<"health-threshold", "thresholdLimit">>})
        (+) Xml(parent, d,
                {<<"healthy", "healthy">>, <<"unhealthy", "unHealthy">>, <<"plugin-name", "pluginName">>,
                 <<"default-encoding", "defaultEncoding">>, <<"can-run-on-failed", "canRunOnFailed">>,
                 <<"use-stable-build-as-reference", "useStableBuildAsReference">>,
                 <<"use-previous-build-as-reference", "usePreviousBuildAsReference">>,
                 <<"use-delta-values", "useDeltaValues">>, <<"should-detect-modules", "shouldDetectModules">>,
                 <<"dont-compute-new", "dontComputeNew">>, <<"pattern", "pattern">>,
                 <<"do-not-resolve-relative-paths", "doNotResolveRelativePaths">>})
        (+) Xml("thresholds", d, UNION {limits(status, kind) : status \in {"unstable", "failed"}, kind \in kinds})

artifactory_optional_props(parent, d, target) ==
    Xml(parent, d,
        {<<"scopes", "scopes">>, <<"violation-recipients", "violationRecipients">>,
         <<"black-duck-app-name", "blackDuckAppName">>, <<"black-duck-app-version", "blackDuckAppVersion">>,
         <<"black-duck-report-recipients", "blackDuckReportRecipients">>, <<"black-duck-scopes", "blackDuckScopes">>,
         <<"deploy-artifacts", "deployArtifacts">>, <<"discard-old-builds", "discardOldBuilds">>,
         <<"discard-build-artifacts", "discardBuildArtifacts">>, <<"publish-build-info", "deployBuildInfo">>,
         <<"env-vars-include", "includeEnvVars">>, <<"run-checks", "runChecks">>,
         <<"include-publish-artifacts", "includePublishArtifacts">>,
         <<"license-auto-discovery", "licenseAutoDiscovery">>,
         <<"enable-issue-tracker-integration", "enableIssueTrackerIntegration">>,
         <<"aggregate-build-issues", "aggregateBuildIssues">>, <<"black-duck-run-checks", "blackDuckRunChecks">>,
         <<"black-duck-include-published-artifacts", "blackDuckIncludePublishedArtifacts">>,
         <<"auto-create-missing-component-requests", "autoCreateMissingComponentRequests">>,
         <<"auto-discard-stale-component-requests", "autoDiscardStaleComponentRequests">>,
         <<"filter-excluded-artifacts-from-build", "filterExcludedArtifactsFromBuild">>}
        \cup IF target = "wrappers"
             THEN {<<"enable-resolve-artifacts", "enableResolveArtifacts">>,
                   <<"disable-license-auto-discovery", "disableLicenseAutoDiscovery">>,
                   <<"record-all-dependencies", "recordAllDependencies">>}
             ELSE {<<"even-if-unstable", "evenIfUnstable">>, <<"pass-identified-downstream", "passIdentifiedDownstream">>,
                   <<"allow-promotion-of-non-staged-builds", "allowPromotionOfNonStagedBuilds">>})

(* The server, and the files and variables that are published.             *)
artifactory_patterns(parent, d) ==
    Xml("details", d, {<<"name", "artifactoryName">>, <<"url", "artifactoryUrl">>})
    (+) Xml(parent \o "/artifactDeploymentPatterns", d, {<<"deployment-include-patterns", "includePatterns">>,
                                                  <<"deployment-exclude-patterns", "excludePatterns">>})
    (+) Xml(parent \o "/envVarsPatterns", d, {<<"env-vars-include-patterns", "includePatterns">>,
                                              <<"env-vars-exclude-patterns", "excludePatterns">>})

test_fairy_common(parent, d) ==
    Required(parent, d, {<<"apikey", "apiKey">>, <<"appfile", "appFile">>})
    (+) Choice(parent, d, {<<"max-duration", "maxDuration">>, <<"screenshot-interval", "screenshotInterval">>,
                           <<"video-quality", "videoQuality">>})
    (+) Xml(parent, d,
            {<<"tester-groups", "testersGroups">>, <<"notify-testers", "notifyTesters">>, <<"autoupdate", "autoUpdate">>,
             <<"record-on-background", "recordOnBackground">>, <<"data-only-wifi", "dataOnlyWifi">>,
             <<"video-enabled", "isVideoEnabled">>, <<"cpu", "cpu">>, <<"memory", "memory">>, <<"logs", "logs">>,
             <<"network", "network">>, <<"phone-signal", "phoneSignal">>, <<"wifi", "wifi">>, <<"gps", "gps">>,
             <<"battery", "battery">>, <<"opengl", "openGl">>, <<"advanced-options", "advancedOptions">>})

(* combine-queued-commits beside git-revision takes its place.             *)
trigger_revision(d) ==
    When(On(d, "git-revision") \/ Given(d, "git-revision/combine-queued-commits"),
         Xml("GitRevisionBuildParameters", d,
             {<<IF Given(d, "combine-queued-commits") THEN "combine-queued-commits"
                ELSE "git-revision/combine-queued-commits", "combineQueuedCommits">>}))
    (+) When(On(d, "svn-revision"),
             Xml("SubversionRevisionBuildParameters", d, {<<"include-upstream", "includeUpstreamParameters">>}))

trigger_project(d) ==
    Optional("PredefinedBuildParameters", d, {<<"predefined-parameters", "properties">>})
    (+) trigger_revision(d)
    (+) When(Given(d, "property-file"),
             Xml("FileBuildParameters", d,
                 {<<"property-file", "propertiesFile">>, <<"fail-on-missing", "failTriggerOnMissing">>}
                 \cup IF AtLeast(d, <<"2.35.1", "2.35.2">>, "2.35.2")
                      THEN {<<"property-multiline", "textParamValueOnNewLine">>} ELSE {})
             (+) Optional("FileBuildParameters", d, {<<"file-encoding", "encoding">>})
             (+) When(Given(d, "use-matrix-child-files"),
                      Xml("FileBuildParameters", d,
                          {<<"use-matrix-child-files", "useMatrixChild">>,
                           <<"matrix-child-combination-filter", "combinationFilter">>,
                           <<"only-exact-matrix-child-runs", "onlyExactRuns">>})))
    (+) Switch("BuildTriggerConfig/configs", d, {<<"current-parameters", "CurrentBuildParameters">>,
                                                 <<"node-parameters", "NodeParameters">>})
    (+) Optional("MatrixSubsetBuildParameters", d, {<<"restrict-matrix-project", "filter">>})
    (+) When(AnyOf(d, {"node-label-name", "node-label"}),
             Xml("NodeLabelBuildParameter", d, {<<"node-label-name", "name">>, <<"node-label", "nodeLabel">>}))
    (+) Optional("BooleanParameterConfig", d, {<<"boolean-parameters/value", "value">>})

==============================================================================
