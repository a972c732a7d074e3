-------------------------------- MODULE Wrappers --------------------------------
(***************************************************************************)
(* Components of jenkins_jobs/modules/wrappers.py.                         *)
(***************************************************************************)
EXTENDS Helpers

(* The image is of a type; another one selects nothing.                    *)
docker_custom_build_env(d) ==
    Lookup(d, {"image-type"})
    (+) When(Is(d, "image-type", "dockerfile"), Xml("selector", d, {<<"context-path", "contextPath">>,
                                                                     <<"dockerfile", "dockerfile">>}))
    (+) When(Is(d, "image-type", "pull"), Xml("selector", d, {<<"image", "image">>}))
    (+) Optional("dockerHost", d, {<<"host", "uri">>, <<"credentials-id", "credentialsId">>})
    (+) When(Given(d, "volumes"), Xml("Volume", d, {<<"volumes/host-path", "hostPath">>, <<"volumes/path", "path">>}))
    (+) Xml("DockerBuildWrapper", d,
            {<<"docker-tool", "dockerInstallation">>, <<"registry-credentials-id", "dockerRegistryCredentials">>,
             <<"force-pull", "forcePull">>, <<"privileged", "privileged">>, <<"verbose", "verbose">>,
             <<"group", "group">>, <<"command", "command">>, <<"net", "net">>, <<"memory-limit", "memory">>,
             <<"cpu-shares", "cpu">>})

-----------------------------------------------------------------------------
TimeoutVersions == <<"1.13", "1.14", "1.17">>

(* A type that is none of these has no strategy: its exception is made but *)
(* not raised.                                                             *)
timeout_strategy(d) ==
    LET type == Value(d, "type", "absolute")
    IN  When(type \in {"absolute", "likely-stuck"}, Xml("strategy", d, {<<"timeout", "timeoutMinutes">>}))
        (+) When(type = "no-activity", Xml("strategy", d, {<<"timeout", "timeoutSecondsString">>}))
        (+) When(type = "elastic",
                 Xml("strategy", d, {<<"elastic-percentage", "timeoutPercentage">>,
                                     <<"elastic-number-builds", "numberOfBuilds">>,
                                     <<"elastic-default-timeout", "timeoutMinutesElasticDefault">>}))
        (+) When(type = "deadline", Xml("strategy", d, {<<"deadline-time", "deadlineTime">>,
                                                        <<"deadline-tolerance", "deadlineToleranceInMinutes">>}))

(* The build is aborted when nothing else is to be done with it.           *)
timeout_operations(d) ==
    LET all == {<<"fail", "FailOperation">>, <<"abort", "AbortOperation">>}
               \cup IF AtLeast(d, TimeoutVersions, "1.17") THEN {<<"abort-and-restart", "AbortAndRestartOperation">>} ELSE {}
        actions == {a[1] : a \in {a \in all : On(d, a[1])}}
    IN  Switch("operationList", d, all)
        (+) When(actions = {}, Element("operationList", "AbortOperation", Value(d, "abort", "")))
        (+) When("abort-and-restart" \in actions, Xml("AbortAndRestartOperation", d, {<<"max-restarts", "maxRestarts">>}))
        (+) Optional("WriteDescriptionOperation", d, {<<"write-description", "description">>})

timeout(d) ==
    (IF AtLeast(d, TimeoutVersions, "1.14") THEN timeout_strategy(d) (+) timeout_operations(d)
     ELSE Xml("BuildTimeoutWrapper", d,
              {<<"timeout", "timeoutMinutes">>, <<"fail", "failBuild">>, <<"write-description", "writingDescription">>,
               <<"elastic-percentage", "timeoutPercentage">>,
               <<"elastic-default-timeout", "timeoutMinutesElasticDefault">>, <<"type", "timeoutType">>}))
    (+) Optional("BuildTimeoutWrapper", d, {<<"timeout-var", "timeoutEnvVar">>})

-----------------------------------------------------------------------------
(* The builds that a condition keeps.                                      *)
run_condition(d) ==
    LET of(o) == "run-condition/" \o o
        is(types) == IsOneOf(d, of("type"), types)
        condition(mapping) == Xml("runCondition", d, {<<of(m[1]), m[2]>> : m \in mapping})
    IN  When(is({"boolean-condition"}), condition({<<"token", "token">>}))
        (+) When(is({"cause-condition"}), Choice("runCondition", d, {<<of("build-cause"), "buildCause">>})
                                          (+) condition({<<"exclusive-cause", "exclusiveCause">>}))
        (+) When(is({"execute-shell", "execute-batch"}), condition({<<"command", "command">>}))
        (+) When(is({"execution-node"}), Xml("allowedNodes", d, {<<of("allowed-nodes"), "string">>}))
        (+) When(is({"regexp-match"}), condition({<<"expression", "expression">>, <<"label", "label">>}))
        (+) When(is({"strings-match"}), condition({<<"arg1", "arg1">>, <<"arg2", "arg2">>,
                                                   <<"ignore-case", "ignoreCase">>}))

(* For a wrong policy, or none, an exception is made but not raised, and   *)
(* its element is missed at the end.                                       *)
build_keeper(d) ==
    CrashIf(Value(d, "policy", "bad") = "bad")
    (+) (CASE Is(d, "policy", "keep-first-failed") -> Xml("policy", d, {<<"number-of-fails", "numberOfFails">>})
           [] Is(d, "policy", "run-condition") ->
                run_condition(d) (+) Xml("policy", d, {<<"keep-build", "keepBuildIfEvalFails">>})
           [] OTHER -> Xml("policy", d, {<<"build-period", "buildPeriod">>, <<"dont-keep-failed", "dontKeepFailed">>}))

sauce_ondemand(d) ==
    LET credentials == {"override-username", "override-api-access-key"}
    IN  Xml("SauceOnDemandBuildWrapper", d,
            {<<"enable-sauce-connect", "enableSauceConnect">>, <<"sauce-host", "seleniumHost">>,
             <<"sauce-port", "seleniumPort">>, <<"launch-sauce-connect-on-slave", "launchSauceConnectOnSlave">>,
             <<"https-protocol", "httpsProtocol">>, <<"sauce-connect-options", "options">>})
        (+) When(~Absent(d, credentials), Xml("credentials", d, {<<"override-username", "username">>,
                                                                 <<"override-api-access-key", "apiKey">>}))
        (+) When(Value(d, "type", "selenium") = "selenium",
                 Xml("seleniumInformation", d, {<<"starting-url", "seleniumBrowsers">>})
                 (+) Lookup(d, {"platforms"}) (+) Xml("seleniumBrowsers", d, {<<"platforms", "string">>}))
        (+) When(Is(d, "type", "webdriver"),
                 Lookup(d, {"platforms"}) (+) Xml("webDriverBrowsers", d, {<<"platforms", "string">>}))

-----------------------------------------------------------------------------
(* The types of bindings, what they need to be given, and what they may.   *)
Bindings ==
    [t \in {"zip-file", "file", "username-password", "text", "docker-server-creds-binding"} |->
        [element |-> CASE t = "zip-file" -> "ZipFileBinding" [] t = "file" -> "FileBinding"
                       [] t = "username-password" -> "UsernamePasswordBinding" [] t = "text" -> "StringBinding"
                       [] OTHER -> "DockerServerCredentialsBinding",
         needs |-> {}, may |-> {<<"variable", "variable">>}]]
    @@ "username-password-separated" :>
        [element |-> "UsernamePasswordMultiBinding", may |-> {},
         needs |-> {<<"username", "usernameVariable">>, <<"password", "passwordVariable">>}]
    @@ "amazon-web-services" :>
        [element |-> "AmazonWebServicesCredentialsBinding", may |-> {},
         needs |-> {<<"access-key", "accessKeyVariable">>, <<"secret-key", "secretKeyVariable">>}]
    @@ "ssh-user-private-key" :>
        [element |-> "SSHUserPrivateKeyBinding", needs |-> {<<"key-file-variable", "keyFileVariable">>},
         may |-> {<<"username-variable", "usernameVariable">>, <<"passphrase-variable", "passphraseVariable">>}]
    @@ "cert-multi-binding" :>
        [element |-> "CertificateMultiBinding", may |-> {},
         needs |-> {<<"keystore-variable", "keystoreVariable">>, <<"password-variable", "passwordVariable">>,
                    <<"alias-variable", "aliasVariable">>}]

credentials_binding(d) ==
    LET of(type, mapping) == {<<type \o "/" \o m[1], m[2]>> : m \in mapping}
        binding(type) ==
            Required(Bindings[type].element, d, of(type, Bindings[type].needs))
            (+) Optional(Bindings[type].element, d, of(type, Bindings[type].may \cup {<<"credential-id", "credentialsId">>}))
        bound == {binding(type) : type \in {type \in DOMAIN Bindings : Given(d, type)}}
    IN  RefuseIf(Given(d, "bad") \/ \E b \in bound : b.outcome = "refused")
        (+) [outcome |-> "written", xml |-> UNION {b.xml : b \in bound}]

-----------------------------------------------------------------------------
ArtifactoryVersions == <<"2.2.0", "2.3.0">>

(* The key that was given as text also says whether the mode is dynamic.   *)
artifactory_generic(d) ==
    LET specs(upload, download, element) ==
            When(AnyOf(d, {upload, download}),
                 Xml("uploadSpec", d, {<<upload, element>>}) (+) Xml("downloadSpec", d, {<<download, element>>}))
    IN  (IF AtLeast(d, ArtifactoryVersions, "2.3.0")
         THEN Xml("deployReleaseRepository", d, {<<"key-from-text", "keyFromText">>,
                                                 <<"key-from-select", "keyFromSelect">>,
                                                 <<"key-from-text", "dynamicMode">>})
         ELSE Xml("details", d, {<<"repo-key", "repositoryKey">>, <<"snapshot-repo-key", "snapshotsRepositoryKey">>}))
        (+) specs("upload-spec", "download-spec", "spec")
        (+) specs("upload-spec-file", "download-spec-file", "filePath")
        (+) Xml("ArtifactoryGenericConfigurator", d,
                {<<"deploy-pattern", "deployPattern">>, <<"resolve-pattern", "resolvePattern">>,
                 <<"matrix-params", "matrixParams">>, <<"deploy-build-info", "deployBuildInfo">>,
                 <<"env-vars-include", "includeEnvVars">>, <<"discard-old-builds", "discardOldBuilds">>,
                 <<"discard-build-artifacts", "discardBuildArtifacts">>})
        (+) Xml("details", d, {<<"name", "artifactoryName">>, <<"url", "artifactoryUrl">>})
        (+) Xml("envVarsPatterns", d, {<<"env-vars-include-patterns", "includePatterns">>,
                                       <<"env-vars-exclude-patterns", "excludePatterns">>})

artifactory_maven_freestyle(d) ==
    LET repository(parent, key) == Xml(parent, d, {<<key, "keyFromText">>, <<key, "keyFromSelect">>,
                                                   <<"deploy-dynamic-mode", "dynamicMode">>})
        details(parent, release, snapshot) ==
            repository(parent \o "/" \o release, "deploy-release-repo-key")
            (+) repository(parent \o "/" \o snapshot, "deploy-snapshot-repo-key")
            (+) Xml(parent, d, {<<"name", "artifactoryName">>, <<"url", "artifactoryUrl">>,
                                <<"resolve-staging-plugin", "stagingPlugin">>})
    IN  details("details", "deployReleaseRepository", "deploySnapshotRepository")
        (+) details("resolverDetails", "resolveReleaseRepository", "resolveSnapshotRepository")
        (+) artifactory_patterns("ArtifactoryMaven3Configurator", d)
        (+) Xml("ArtifactoryMaven3Configurator", d, {<<"matrix-params", "matrixParams">>})
        (+) artifactory_optional_props("ArtifactoryMaven3Configurator", d, "wrappers")
==============================================================================
