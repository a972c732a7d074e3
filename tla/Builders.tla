------------------------------- MODULE Builders -------------------------------
(***************************************************************************)
(* Components of jenkins_jobs/modules/builders.py.                         *)
(***************************************************************************)
EXTENDS XmlMapping

-----------------------------------------------------------------------------
(* trigger-builds                                                          *)

(* What the triggered job gets of this one.                                *)
build_parameters(d) ==
    Switch("configs", d, {<<"current-parameters", "CurrentBuildParameters">>,
                          <<"svn-revision", "SubversionRevisionBuildParameters">>,
                          <<"same-node", "NodeParameters">>})
    (+) When(On(d, "git-revision") \/ Given(d, "git-revision/combine-queued-commits"),
             Xml("GitRevisionBuildParameters", d,
                 {<<"git-revision/combine-queued-commits", "combineQueuedCommits">>}))
    (+) When(Given(d, "property-file"),
             Xml("FileBuildParameters", d, {<<"property-file", "propertiesFile">>,
                                            <<"property-file-fail-on-missing", "failTriggerOnMissing">>}))
    (+) Optional("PredefinedBuildParameters", d, {<<"predefined-parameters", "properties">>})
    (+) When(Given(d, "bool-parameters"),
             Required("BooleanParameterConfig", d, {<<"bool-parameters/name", "name">>})
             (+) Xml("BooleanParameterConfig", d, {<<"bool-parameters/value", "value">>}))
    (+) When(Given(d, "node-label-name") /\ Given(d, "node-label"),
             Xml("NodeLabelBuildParameter", d, {<<"node-label-name", "name">>, <<"node-label", "nodeLabel">>}))
    (+) Optional("MatrixSubsetBuildParameters", d, {<<"restrict-matrix-project", "filter">>})

parameter_factory(d) ==
    LET kind == "parameter-factories/factory"
        opt(o) == "parameter-factories/" \o o
        files == IF Is(d, kind, "binaryfile") THEN "BinaryFileParameterFactory" ELSE "FileBuildParameterFactory"
    IN  Lookup(d, {kind})
        (+) RefuseIf(Is(d, kind, "bad"))
        (+) When(Is(d, kind, "binaryfile"),
                 Required("BinaryFileParameterFactory", d, {<<opt("parameter-name"), "parameterName">>}))
        (+) When(IsOneOf(d, kind, {"filebuild", "binaryfile"}),
                 Required(files, d, {<<opt("file-pattern"), "filePattern">>})
                 (+) Choice(files, d, {<<opt("no-files-found-action"), "noFilesFoundAction">>}))
        (+) When(Is(d, kind, "counterbuild"),
                 Required("CounterBuildParameterFactory", d,
                          {<<opt("from"), "from">>, <<opt("to"), "to">>, <<opt("step"), "step">>})
                 (+) Xml("CounterBuildParameterFactory", d, {<<opt("parameters"), "paramExpr">>})
                 (+) Choice("CounterBuildParameterFactory", d, {<<opt("validation-fail"), "validationFail">>}))
        (+) When(Is(d, kind, "allnodesforlabel"),
                 Required("AllNodesForLabelBuildParameterFactory", d, {<<opt("node-label"), "nodeLabel">>})
                 (+) Xml("AllNodesForLabelBuildParameterFactory", d,
                         {<<opt("name"), "name">>, <<opt("ignore-offline-nodes"), "ignoreOfflineNodes">>}))

(* A threshold that is `never' has no element.                             *)
block_thresholds(d) ==
    LET thresholds == {<<"block-thresholds/build-step-failure-threshold", "buildStepFailureThreshold">>,
                       <<"block-thresholds/unstable-threshold", "unstableThreshold">>,
                       <<"block-thresholds/failure-threshold", "failureThreshold">>}
    IN  Choice("block", d, {t \in thresholds : ~Is(d, t[1], "never")})

(* The parameters of a job that are true or false are written under an     *)
(* element whose name is that of the list of all jobs, and the jobs after  *)
(* this one end up there too.  With no such parameter the whole builder is *)
(* removed.  `then' is the next job of the list.                           *)
trigger_builds(d) ==
    LET under == IF Given(d, "bool-parameters") THEN "BooleanParameters/configs" ELSE "TriggerBuilder/configs"
    IN  When(Given(d, "project"),
             build_parameters(d)
             (+) When(Given(d, "parameter-factories"), parameter_factory(d))
             (+) Xml("TriggerBuilder/configs/BlockableBuildTriggerConfig", d, {<<"project", "projects">>})
             (+) When(On(d, "block"), block_thresholds(d))
             (+) Optional(under \o "/BlockableBuildTriggerConfig", d, {<<"then/project", "projects">>}))

-----------------------------------------------------------------------------
(* conditional-step                                                        *)

Days == {"SUN", "MON", "TUES", "WED", "THURS", "FRI", "SAT"}

day_of_week(at, d) ==
    RefuseIf(Is(d, "day-selector", "bad"))
    (+) When(Is(d, "day-selector", "select-days"), Xml("days/Day", d, {<<"days/" \o day, "selected">> : day \in Days}))
    (+) Xml(at, d, {<<"use-build-time", "useBuildTime">>})

(* The colour and the rest of the best result come from the table.         *)
current_status(d) ==
    RefuseIf(Is(d, "condition-worst", "bad")) (+) Xml("worstResult", d, {<<"condition-worst", "name">>})
    (+) RefuseIf(Is(d, "condition-best", "bad")) (+) Xml("bestResult", d, {<<"condition-best", "name">>})

files_condition(at, kind, d) ==
    (IF kind = "file-exists" THEN Required(at, d, {<<"condition-filename", "file">>})
     ELSE Xml(at, d, {<<"include-pattern", "includes">>, <<"exclude-pattern", "excludes">>}))
    (+) Choice(at, d, {<<"condition-basedir", "baseDir">>})

(* The causes are in a tuple, which convert_mapping_to_xml does not check. *)
(* What is no known kind is taken for an `or'.                             *)
simple_condition(at, kind, d) ==
    CASE kind \in {"always", "never"} -> Nothing
      [] kind = "boolean-expression" -> Required(at, d, {<<"condition-expression", "token">>})
      [] kind = "build-cause" ->
             Xml(at, d, {<<"cause", "buildCause">>, <<"exclusive-cause", "exclusiveCause">>})
      [] kind = "day-of-week" -> day_of_week(at, d)
      [] kind = "execution-node" -> Lookup(d, {"nodes"}) (+) Xml("allowedNodes", d, {<<"nodes", "string">>})
      [] kind = "strings-match" ->
             Xml(at, d,
                 {<<"condition-string1", "arg1">>, <<"condition-string2", "arg2">>,
                  <<"condition-case-insensitive", "ignoreCase">>})
      [] kind = "current-status" -> current_status(d)
      [] kind \in {"shell", "windows-shell"} -> Xml(at, d, {<<"condition-command", "command">>})
      [] kind \in {"file-exists", "files-match"} -> files_condition(at, kind, d)
      [] kind = "num-comp" ->
             Required(at, d, {<<"lhs", "lhs">>, <<"rhs", "rhs">>})
             (+) Choice(at, d, {<<"comparator", "comparator">>})
      [] kind = "regex-match" -> Xml(at, d, {<<"regex", "expression">>, <<"label", "label">>})
      [] kind = "time" ->
             Xml(at, d,
                 {<<"earliest-hour", "earliestHours">>, <<"earliest-min", "earliestMinutes">>,
                  <<"latest-hour", "latestHours">>, <<"latest-min", "latestMinutes">>,
                  <<"use-build-time", "useBuildTime">>})

(* An operand has a kind and nothing else that is read here.               *)
build_condition(at, d) ==
    LET operand(o, under) ==
            RefuseIf(~Given(d, o)) (+) Lookup(d, {o \o "/condition-kind"})
            (+) RefuseIf(d[o \o "/condition-kind"] = "boolean-expression")
            (+) Xml(under, d, {<<o \o "/condition-kind", "condition">>})
    IN  Lookup(d, {"condition-kind"})
        (+) CASE d["condition-kind"] = "not" -> operand("condition-operand", at)
              [] d["condition-kind"] \in {"and", "or", "bad"} -> operand("condition-operands", "ConditionContainer")
              [] OTHER -> simple_condition(at, d["condition-kind"], d)

(* The runner is read from a dictionary.                                   *)
conditional_step(d) ==
    LET many == Is(d, "steps", "many")
        root == IF many THEN "ConditionalBuilder" ELSE "SingleConditionalBuilder"
    IN  Lookup(d, {"steps"})
        (+) build_condition(IF many THEN "runCondition" ELSE "condition", d)
        (+) LookupValue(d, "on-evaluation-failure")
        (+) Xml(root, d, {<<"on-evaluation-failure", "runner">>})

-----------------------------------------------------------------------------
(* The conditions and the statuses are in tuples: no value is refused.     *)
multijob_project(d) ==
    Required("PhaseJobsConfig", d, {<<"projects/name", "jobName">>})
    (+) Xml("PhaseJobsConfig", d, {<<"projects/current-parameters", "currParams">>})
    (+) Optional("PhaseJobsConfig", d, {<<"projects/alias", "jobAlias">>})
    (+) When(Given(d, "projects/node-label-name") /\ Given(d, "projects/node-label"),
             Xml("NodeLabelBuildParameter", d, {<<"projects/node-label-name", "name">>,
                                                <<"projects/node-label", "nodeLabel">>}))
    (+) Switch("configs", d, {<<"projects/node-parameters", "NodeParameters">>,
                              <<"projects/git-revision", "GitRevisionBuildParameters">>})
    (+) Optional("FileBuildParameters", d, {<<"projects/property-file", "propertiesFile">>})
    (+) Optional("PredefinedBuildParameters", d, {<<"projects/predefined-parameters", "properties">>})
    (+) Xml("PhaseJobsConfig", d, {<<"projects/abort-all-job", "abortAllJob">>,
                                   <<"projects/aggregate-results", "aggregatedTestResults">>})
    (+) When(AnyOf(d, {"projects/retry/strategy-path", "projects/retry/max-retry"}),
             Required("PhaseJobsConfig", d, {<<"projects/retry/strategy-path", "parsingRulesPath">>})
             (+) Xml("PhaseJobsConfig", d, {<<"projects/retry/max-retry", "maxRetries">>}))
    (+) Optional("MatrixSubsetBuildParameters", d, {<<"projects/restrict-matrix-project", "filter">>})
    (+) Optional("PhaseJobsConfig", d, {<<"projects/enable-condition", "condition">>,
                                        <<"projects/kill-phase-on", "killPhaseOnJobResultCondition">>})

multijob(d) ==
    Required("MultiJobBuilder", d, {<<"name", "phaseName">>})
    (+) Xml("MultiJobBuilder", d, {<<"condition", "continuationCondition">>, <<"execution-type", "executionType">>})
    (+) When(Given(d, "projects"), multijob_project(d))

(* The settings of the client of Salt, one entry for each that this client *)
(* has, besides the elements of their own.                                 *)
saltstack(d) ==
    LET client == Value(d, "clientinterface", "local")
        entry(options) == Xml("map/entry", d, {<<o, "string">> : o \in options})
    IN  Required("SaltAPIBuilder", d, {<<"servername", "servername">>, <<"credentials", "credentialsId">>})
        (+) Choice("SaltAPIBuilder", d, {<<"authtype", "authtype">>, <<"targettype", "targettype">>,
                                         <<"clientinterface", "clientInterface">>})
        (+) Xml("SaltAPIBuilder", d,
                {<<"target", "target">>, <<"function", "function">>, <<"arguments", "arguments">>,
                 <<"kwarguments", "kwarguments">>, <<"setpillardata", "usePillar">>, <<"pillarkey", "pillarkey">>,
                 <<"pillarvalue", "pillarvalue">>, <<"wait", "blockbuild">>, <<"polltime", "jobPollTime">>,
                 <<"batchsize", "batchSize">>, <<"mods", "mods">>, <<"saveoutput", "saveEnvVar">>})
        (+) When(client = "local", entry({"wait", "polltime"}))
        (+) When(client = "local-batch", entry({"batchsize"}))
        (+) When(client = "runner", entry({"mods"})
                 (+) When(On(d, "setpillardata"), entry({"pillarkey", "pillarvalue"})))

CmakeVersions == <<"1.10", "2.0">>

(* A type of build that is none of the known ones is written elsewhere.    *)
cmake(d) ==
    Required("CmakeBuilder", d, {<<"source-dir", "sourceDir">>})
    (+) Xml("CmakeBuilder", d, {<<"generator", "generator">>, <<"clean-build-dir", "cleanBuild">>})
    (+) IF AtLeast(d, CmakeVersions, "2.0")
        THEN Optional("CmakeBuilder", d, {<<"preload-script", "preloadScript">>})
             (+) Xml("CmakeBuilder", d, {<<"working-dir", "workingDir">>, <<"build-type", "buildType">>,
                                         <<"installation-name", "installationName">>, <<"other-arguments", "toolArgs">>})
             (+) When(Given(d, "build-tool-invocations"),
                      Xml("BuildToolStep", d, {<<"build-tool-invocations/use-cmake", "withCmake">>,
                                               <<"build-tool-invocations/arguments", "args">>,
                                               <<"build-tool-invocations/environment-variables", "vars">>}))
        ELSE Xml("CmakeBuilder", d,
                 {<<"preload-script", "preloadScript">>, <<"build-dir", "buildDir">>, <<"install-dir", "installDir">>,
                  <<"make-command", "makeCommand">>, <<"install-command", "installCommand">>,
                  <<"other-arguments", "cmakeArgs">>, <<"custom-cmake-path", "projectCmakePath">>,
                  <<"clean-install-dir", "cleanInstallDir">>,
                  <<"build-type", IF Is(d, "build-type", "Debug") THEN "buildType" ELSE "otherBuildType">>})

(* The old name of targets is copied to the new one, in the data.          *)
dsl_targets(d) ==
    IF Given(d, "target") /\ ~Given(d, "targets") THEN "targets" :> d["target"] @@ d ELSE d

dsl(data) ==
    LET d == dsl_targets(data)
    IN  RefuseIf(~Given(d, "script-text") /\ ~Given(d, "targets"))
        (+) Xml("ExecuteDslScripts", d, {IF Given(d, "script-text") THEN <<"script-text", "scriptText">>
                                         ELSE <<"targets", "targets">>})
        (+) Xml("ExecuteDslScripts", d, {<<"sandbox", "sandbox">>, <<"ignore-existing", "ignoreExisting">>})
        (+) Choice("ExecuteDslScripts", d,
                   {<<"removed-job-action", "removedJobAction">>, <<"removed-view-action", "removedViewAction">>,
                    <<"lookup-strategy", "lookupStrategy">>})
        (+) Xml("ExecuteDslScripts", d, {<<"additional-classpath", "additionalClasspath">>})

xcode(d) ==
    LET version == {"version-technical", "version-marketing"}
    IN  Optional("DeveloperProfileLoader", d, {<<"developer-profile", "id">>})
        (+) Xml("XCodeBuilder", d,
                {<<"clean-build", "cleanBeforeBuild">>, <<"clean-test-reports", "cleanTestReports">>,
                 <<"archive", "generateArchive">>, <<"configuration", "configuration">>,
                 <<"configuration-directory", "configurationBuildDir">>, <<"target", "target">>, <<"sdk", "sdk">>,
                 <<"symroot", "symRoot">>, <<"project-path", "xcodeProjectPath">>,
                 <<"project-file", "xcodeProjectFile">>, <<"build-arguments", "xcodebuildArguments">>,
                 <<"schema", "xcodeSchema">>, <<"workspace", "xcodeWorkspaceFile">>,
                 <<"profile", "embeddedProfileFile">>, <<"codesign-id", "codeSigningIdentity">>,
                 <<"allow-failing", "allowFailingBuildResults">>})
        (+) When(AnyOf(d, version), Xml("XCodeBuilder", d, {<<"version-technical", "cfBundleVersionValue">>,
                                                            <<"version-marketing", "cfBundleShortVersionStringValue">>}))
        (+) Choice("XCodeBuilder", d, {<<"ipa-export-method", "ipaExportMethod">>})
        (+) Xml("XCodeBuilder", d,
                {<<"ipa-version", "ipaName">>, <<"ipa-output", "ipaOutputDirectory">>,
                 <<"development-team-id", "developmentTeamID">>, <<"keychain-name", "keychainName">>,
                 <<"keychain-path", "keychainPath">>, <<"keychain-password", "keychainPwd">>,
                 <<"keychain-unlock", "unlockKeychain">>, <<"compile-bitcode", "compileBitcode">>,
                 <<"upload-bitcode", "uploadBitcode">>, <<"upload-symbols", "uploadSymbols">>})
        (+) When(Given(d, "provisioning-profiles"),
                 Xml("ProvisioningProfile", d,
                     {<<"provisioning-profiles/bundle-id", "provisioningProfileAppId">>,
                      <<"provisioning-profiles/provisioning-profile-uuid", "provisioningProfileUUID">>}))

ansible_playbook(d) ==
    LET type == Value(d, "inventory-type", "path")
    IN  Required("AnsiblePlaybookBuilder", d, {<<"playbook", "playbook">>})
        (+) When(type = "path", Required("inventory", d, {<<"inventory/path", "path">>}))
        (+) When(type = "content", Required("inventory", d, {<<"inventory/content", "content">>})
                                   (+) Xml("inventory", d, {<<"inventory/dynamic", "dynamic">>}))
        (+) RefuseIf(type = "bad")
        (+) Xml("AnsiblePlaybookBuilder", d,
                {<<"hosts", "limit">>, <<"tags-to-run", "tags">>, <<"tags-to-skip", "skippedTags">>,
                 <<"task-to-start-at", "startAtTask">>, <<"credentials-id", "credentialsId">>,
                 <<"vault-credentials-id", "vaultCredentialsId">>, <<"sudo", "sudo">>, <<"become", "become">>})
        (+) When(On(d, "sudo"), Xml("AnsiblePlaybookBuilder", d, {<<"sudo-user", "sudoUser">>}))
        (+) When(On(d, "become"), Xml("AnsiblePlaybookBuilder", d, {<<"become-user", "becomeUser">>}))
        (+) Xml("AnsiblePlaybookBuilder", d,
                {<<"workers", "forks">>, <<"unbuffered-output", "unbufferedOutput">>,
                 <<"colorized-output", "colorizedOutput">>, <<"disable-host-key-checking", "disableHostKeyChecking">>,
                 <<"host-key-checking", "hostKeyChecking">>, <<"additional-parameters", "additionalParameters">>})
        (+) When(Given(d, "variables"),
                 Required("ExtraVar", d, {<<"variables/name", "key">>})
                 (+) Xml("ExtraVar", d, {<<"variables/value", "value">>, <<"variables/hidden", "hidden">>}))

(* A framework or a threshold that is not known is left out.               *)
xunit_report(parent, d) ==
    Lookup(d, {"types"})
    (+) When(Given(d, "types/gtest"),
             Xml("GoogleTestType", d,
                 {<<"types/gtest/pattern", "pattern">>, <<"types/gtest/requireupdate", "failIfNotNew">>,
                  <<"types/gtest/deleteoutput", "deleteOutputFiles">>,
                  <<"types/gtest/skip-if-no-test-files", "skipNoTestFiles">>,
                  <<"types/gtest/stoponerror", "stopProcessingIfError">>}))
    (+) Optional("FailedThreshold", d,
                 {<<"thresholds/failed/unstable", "unstableThreshold">>, <<"thresholds/failed/failure", "failureThreshold">>,
                  <<"thresholds/failed/unstablenew", "unstableNewThreshold">>,
                  <<"thresholds/failed/failurenew", "failureNewThreshold">>})
    (+) Xml(parent, d, {<<"thresholdmode", "thresholdMode">>})
    (+) Xml("extraConfiguration", d, {<<"test-time-margin", "testTimeMargin">>})

xunit(d) == xunit_report("XUnitBuilder", d)

-----------------------------------------------------------------------------
http_request(d) ==
    Required("HttpRequest", d, {<<"url", "url">>})
    (+) Choice("HttpRequest", d, {<<"mode", "httpMode">>, <<"content-type", "contentType">>,
                                  <<"accept-type", "acceptType">>})
    (+) Xml("HttpRequest", d,
            {<<"output-file", "outputFile">>, <<"console-log", "consoleLogResponseBody">>,
             <<"pass-build", "passBuildParameters">>, <<"time-out", "timeout">>,
             <<"valid-response-codes", "validResponseCodes">>, <<"valid-response-content", "validResponseContent">>})
    (+) Optional("HttpRequest", d, {<<"authentication-key", "authentication">>})
    (+) When(Given(d, "custom-headers"),
             Required("pair", d, {<<"custom-headers/name", "name">>, <<"custom-headers/value", "value">>}))

shining_panda(d) ==
    LET is(environments) == IsOneOf(d, "build-environment", environments)
        builder == IF is({"custom"}) THEN "CustomPythonBuilder" ELSE IF is({"python"}) THEN "PythonBuilder"
                   ELSE "VirtualenvBuilder"
    IN  RefuseIf(~is({"custom", "virtualenv", "python"}))
        (+) When(is({"python", "virtualenv"}), Xml(builder, d, {<<"python-version", "pythonName">>}))
        (+) When(is({"custom"}), Required(builder, d, {<<"home", "home">>}))
        (+) When(is({"virtualenv"}),
                 Xml(builder, d, {<<"name", "home">>, <<"clear", "clear">>, <<"use-distribute", "useDistribute">>,
                                  <<"system-site-packages", "systemSitePackages">>}))
        (+) Choice(builder, d, {<<"nature", "nature">>})
        (+) Xml(builder, d, {<<"command", "command">>, <<"ignore-exit-code", "ignoreExitCode">>})
==============================================================================
