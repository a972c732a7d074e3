--------------------------------- MODULE Scm ---------------------------------
(***************************************************************************)
(* Components of jenkins_jobs/modules/scm.py.                              *)
(***************************************************************************)
EXTENDS XmlMapping

(* git_extensions, for a job or, when the parent is `traits', for a        *)
(* multibranch project, which has no trait for many of them.  `clean' may  *)
(* be a boolean, and so may its two parts.                                 *)
git_extensions_before_clone(parent, d) ==
    LET job == parent # "traits"
        clean(o) == IF IsOneOf(d, "clean", {"true", "false"})
                    THEN IF o = "clean/after" THEN d["clean"] ELSE "false"
                    ELSE Value(d, o, "false")
        cleaned(o, stale, trait, extension) ==
            When(Given(d, "clean") /\ clean(o) # "false",
                 Element(IF job THEN parent ELSE "traits/" \o trait, extension, clean(o))
                 (+) When(clean(o) = "dict",
                          Optional(extension, d, {<<stale, "deleteUntrackedNestedRepositories">>})))
    IN  When(job, Optional("RelativeTargetDirectory", d, {<<"basedir", "relativeTargetDir">>})
                  (+) When(Given(d, "changelog-against"),
                           Xml("ChangelogToBranch/options", d,
                               {<<"changelog-against/remote", "compareRemote">>,
                                <<"changelog-against/branch", "compareTarget">>}))
                  (+) LookupValue(d, "choosing-strategy")
                  (+) Optional("BuildChooserSetting", d, {<<"choosing-strategy", "buildChooser">>}))
        (+) cleaned("clean/after", "clean/after/remove-stale-nested-repos", "CleanAfterCheckout", "CleanCheckout")
        (+) cleaned("clean/before", "clean/before/remove-stale-nested-repos", "CleanBeforeCheckout",
                    "CleanBeforeCheckout")
        (+) Optional("UserIdentity", d, {<<"committer/name", "name">>, <<"committer/email", "email">>})
        (+) When(job, Optional("UserExclusion", d, {<<"excluded-users", "excludedUsers">>}))
        (+) When(job \/ Given(d, "excluded-regions"),
                 Optional("PathRestriction", d, {<<"included-regions", "includedRegions">>,
                                                 <<"excluded-regions", "excludedRegions">>}))
        (+) When(job, Optional("MessageExclusion", d, {<<"ignore-commits-with-messages", "excludedMessage">>})
                      (+) Optional("LocalBranch", d, {<<"local-branch", "localBranch">>})
                      (+) When(Given(d, "merge"),
                               Lookup(d, {"merge/branch"})
                               (+) Xml("PreBuildMerge/options", d, {<<"merge/remote", "mergeRemote">>,
                                                                    <<"merge/branch", "mergeTarget">>})
                               (+) Choice("PreBuildMerge/options", d,
                                          {<<"merge/strategy", "mergeStrategy">>,
                                           <<"merge/fast-forward-mode", "fastForwardMode">>}))
                      (+) Optional("ScmName", d, {<<"scm-name", "name">>}))

git_extensions_of_clone(parent, d) ==
    LET job == parent # "traits"
        per_build_tag == Value(d, "per-build-tag", IF Off(d, "skip-tag") THEN "true" ELSE "false")
    IN  When(AnyOf(d, {"shallow-clone", "timeout", "do-not-fetch-tags", "honor-refspec", "reference-repo"}),
             Xml("CloneOption", d, {<<"shallow-clone", "shallow">>, <<"depth", "depth">>})
             (+) Optional("CloneOption", d, {<<"do-not-fetch-tags", "noTags">>, <<"timeout", "timeout">>,
                                             <<"honor-refspec", "honorRefspec">>,
                                             <<"reference-repo", "reference">>}))
        (+) When(~job, Switch(parent, d, {<<"skip-notifications", "SkipNotifications">>}))
        (+) When(Given(d, "sparse-checkout"),
                 Optional("SparseCheckoutPath", d, {<<"sparse-checkout/paths", "path">>}))
        (+) When(Given(d, "submodule"),
                 Xml("SubmoduleOption", d,
                     {<<"submodule/disable", "disableSubmodules">>, <<"submodule/recursive", "recursiveSubmodules">>,
                      <<"submodule/tracking", "trackingSubmodules">>, <<"submodule/timeout", "timeout">>,
                      <<"submodule/parent-credentials", "parentCredentials">>,
                      <<"submodule/reference-repo", "reference">>, <<"submodule/threads", "threads">>}))
        (+) Optional("CheckoutOption", d, {<<"timeout", "timeout">>})
        (+) When(job, Switch(parent, d, {<<"force-polling-using-workspace", "DisableRemotePoll">>,
                                         <<"ignore-notify", "IgnoreNotifyCommit">>}))
        (+) When(((job /\ Given(d, "per-build-tag")) \/ Given(d, "skip-tag")) /\ per_build_tag = "true",
                 Element(parent, "PerBuildTag", per_build_tag))
        (+) Switch(parent, d, {<<"prune", "PruneStaleBranch">>, <<"use-author", "AuthorInChangelog">>,
                               <<"lfs-pull", "GitLFSPull">>})
        (+) When(~Off(d, "wipe-workspace"), Xml(parent, d, {<<"wipe-workspace", "WipeWorkspace">>}))

git_extensions(parent, d) ==
    git_extensions_before_clone(parent, d) (+) git_extensions_of_clone(parent, d)

git_browser(d) ==
    RefuseIf(Is(d, "browser", "bad"))
    (+) When(Given(d, "browser") /\ d["browser"] # "auto",
             Lookup(d, {"browser-url"})
             (+) Xml("scm", d, {<<"browser", "browser">>})
             (+) Xml("browser", d, {<<"browser-url", "url">>})
             (+) When(IsOneOf(d, "browser", {"gitblit", "viewgit"}), Xml("browser", d, {<<"project-name", "projectName">>}))
             (+) When(Is(d, "browser", "gitlab"), Xml("browser", d, {<<"browser-version", "version">>}))
             (+) When(Is(d, "browser", "phabricator"), Xml("browser", d, {<<"repo-name", "repo">>})))

(* Without `remotes' the git component makes one of its own options, which *)
(* stays in the data.                                                      *)
git_remotes(d) ==
    LET own == {o \in {"name", "url", "refspec", "credentials-id"} : Given(d, o)}
    IN  IF Given(d, "remotes") THEN d
        ELSE d @@ ("remotes" :> "dict") @@ [r \in {"remotes/" \o o : o \in own} |->
                                             d[CHOOSE o \in own : r = "remotes/" \o o]]

git(data) ==
    LET d == git_remotes(data)
        refspec == IF Given(d, "remotes/refspec") THEN "remotes/refspec" ELSE "remotes/name"
    IN  RefuseIf(~Given(d, "remotes/url"))
        (+) Xml("UserRemoteConfig", d, {<<"remotes/name", "name">>, <<refspec, "refspec">>,
                                        <<"remotes/url", "url">>})
        (+) Optional("UserRemoteConfig", d, {<<"remotes/credentials-id", "credentialsId">>})
        (+) Xml("BranchSpec", d, {<<"branches", "name">>})
        (+) When(~Given(d, "submodule"),
                 Xml("scm", d, {<<"disable-submodules", "disableSubmodules">>,
                                <<"recursive-submodules", "recursiveSubmodules">>}))
        (+) Xml("scm", d, {<<"fastpoll", "remotePoll">>, <<"git-tool", "gitTool">>, <<"reference-repo", "reference">>,
                           <<"git-config-name", "gitConfigName">>, <<"git-config-email", "gitConfigEmail">>})
        (+) git_extensions("extensions", d)
        (+) git_browser(d)

svn(d) ==
    LET at == IF Given(d, "repos") THEN "repos/" ELSE ""
    IN  When(Given(d, "viewvc-url"), Xml("browser", d, {<<"viewvc-url", "url">>}))
        (+) Required("ModuleLocation", d, {<<at \o "url", "remote">>})
        (+) Xml("ModuleLocation", d, {<<at \o "basedir", "local">>,
                                      <<at \o "ignore-externals", "ignoreExternalsOption">>})
        (+) Optional("ModuleLocation", d, {<<at \o "credentials-id", "credentialsId">>})
        (+) Choice("ModuleLocation", d, {<<at \o "repo-depth", "depthOption">>})
        (+) When(Given(d, "additional-credentials"),
                 Lookup(d, {"additional-credentials/realm"})
                 (+) Optional("AdditionalCredentials", d,
                              {<<"additional-credentials/realm", "realm">>,
                               <<"additional-credentials/credentials-id", "credentialsId">>}))
        (+) LookupValue(d, "workspaceupdater")
        (+) Xml("scm", d, {<<"workspaceupdater", "workspaceUpdater">>, <<"filter-changelog", "filterChangelog">>,
                           <<"ignore-property-changes-on-directories", "ignoreDirPropChanges">>})
        (+) Optional("scm", d, {<<"excluded-regions", "excludedRegions">>, <<"included-regions", "includedRegions">>,
                                <<"excluded-users", "excludedUsers">>, <<"exclusion-revprop-name", "excludedRevprop">>,
                                <<"excluded-commit-messages", "excludedCommitMessages">>})

cvs(d) ==
    Lookup(d, {"repos"})
    (+) Required("CvsRepository", d, {<<"repos/root", "cvsRoot">>})
    (+) Xml("CvsRepository", d, {<<"repos/compression-level", "compressionLevel">>})
    (+) Lookup(d, {"repos/locations"})
    (+) Choice("location", d, {<<"repos/locations/type", "locationType">>})
    (+) When(IsOneOf(d, "repos/locations/type", {"BRANCH", "TAG"}),
             Xml("location", d, {<<"repos/locations/name", "locationName">>,
                                 <<"repos/locations/use-head", "useHeadIfNotFound">>}))
    (+) Lookup(d, {"repos/locations/modules"})
    (+) Required("CvsModule", d, {<<"repos/locations/modules/remote", "remoteName">>})
    (+) Xml("CvsModule", d, {<<"repos/locations/modules/local-name", "localName">>})
    (+) Optional("ExcludedRegion", d, {<<"repos/excluded-regions", "pattern">>})
    (+) Xml("scm", d, {<<"use-update", "canUseUpdate">>, <<"prune-empty", "pruneEmptyDirectories">>,
                       <<"skip-changelog", "skipChangeLog">>, <<"show-all-output", "disableCvsQuiet">>,
                       <<"clean-checkout", "cleanOnFailedUpdate">>, <<"clean-copy", "forceCleanCopy">>})
==============================================================================
