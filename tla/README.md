# Formal models of greentic-dev

greentic-dev is a command-line tool: every invocation is a short-lived process
that reads some remote or shared state, decides, and writes it back. It keeps no
daemon and takes no locks. What makes it hard is outside one process: the
registry, the directories under `~/.greentic` and `.greentic/`, crates.io and
GitHub are shared by several shells, release engineers and CI jobs, they change
between two requests of one command, and a command can fail or be killed between
any two writes. The models below are about that: each of them has processes that
run the commands, one action for the code between two remote calls or two writes,
an outside world that moves by itself, and a stop at every step.

Paths are relative to the repository; `release_cmd.rs` is `src/src/release_cmd.rs`
and so on for every other file named without a directory.

## 1. Inventory

| component | state it keeps | operations | shared with | hard behaviour | what makes it correct |
|---|---|---|---|---|---|
| release commands (`release_cmd.rs`) | tags of the OCI registry, manifest files in `--out` | `generate`, `publish`, `publish --manifest`, `snapshot`, `promote`, `latest`, `view` | crates.io, GitHub releases, the registry, the update workflow; other engineers and CI | check and use are separate requests; two pushes are not one; uploads are file by file; dispatch is after the pushes | `:stable` never moves onto binaries nobody can download; a tag is never ahead of the release it names; the workflow hears only of what it can pull |
| dev-release source (`release_github_source.rs`) | none between commands | choose the GitHub release a snapshot pins | a repository to which CI adds releases | pages shift while they are read; releases are incomplete for a while; a compromised commit | the newest installable build is pinned, never an older one by accident |
| tenant installation (`install.rs`) | bin and docs directories, `downloads/`, `manifests/tenant-*.json`, `state.json` | `install --tenant` | other shells installing into the same directories | archives with files of other tools, a stop between two files, another tenant's manifest | the record is never ahead of the disk; unverified files never land; a kept manifest is its tenant's |
| wizard launcher (`wizard/`) | run directories: `answers.json`, `plan.json`, `delegated-answers.json`, `exec.log` | `wizard`, `wizard validate`, `wizard apply` | other launchers in the same run directory; greentic-pack and greentic-bundle | run directories are named by the second; the directory is asked for twice; four entry points share one executor | nothing runs unasked; a plan marked as executed is logged; the delegate applies the document it was launched with |
| tool installation (`passthrough.rs`) | installed binaries, cargo-binstall | `install tools` | crates.io and other shells | a list with failures in the middle; a version resolved in one request and installed in another | no tool before cargo-binstall; no tool forgotten; what is put in place is new enough |
| toolchain catalogue (`toolchain_catalogue.rs`) | none, a constant table | lookups | release commands, tool installation | none | one table for both |
| workspace components (`component_add.rs`, `pack_init.rs`) | `.greentic/manifest.json`, `.greentic/components/`, `~/.greentic/cache/{components,packs}/`, pack directories | add a component in either of two ways, make a directory of a pack | other shells in the same workspace | read-modify-write of the manifest without a lock; files that are truncated before they are filled; cache names that collide; a directory that another shell makes meanwhile | every entry names a cached file, one with a digest that digest's bytes; a name has one entry; no addition is lost; a directory holds one pack |
| component resolver (`component_resolver.rs`) | a cache of loaded components and schemas in one process | resolve, describe and validate a node | pack build | cached by name and version while components are rebuilt; the manifest is read apart from the description | nodes of one component are validated against the build that is packed |
| pack build and verify (`pack_build.rs`, `pack_verify.rs`) | the pack file, `.greentic/resolved_config/` | build, build twice and compare, verify | component resolver, component directory, other shells | two builds are compared while inputs change; the second build writes the configurations of the first one's pack | the pack serves its nodes; the configurations are the pack's |
| flow runner (`dev_runner/`) | `.greentic/transcripts/`, a plan per component within one flow | validate a flow, merge its nodes with their defaults, write the transcript | whatever describes a component; other flows of the same stem | components described otherwise meanwhile; defaults and overrides at any depth; transcripts named by stem and second | one description judges all nodes of a component; every value of a transcript is marked as what it is; a transcript stays |
| security report (`security_cmd.rs`) | `.foxguard.yml`, `target/greentic-security/` | collect alerts, merge the default ignores, run foxguard, write the reports, evaluate the policy | GitHub, foxguard and its installation, the owner of `.foxguard.yml`, other commands in the checkout | one request per source and state while alerts change; failures become warnings, missing features nothing; answers end after a page; a file is read, merged and written without a lock | a pass with nothing missing saw whatever could block it; no alert behind the verdict is hidden; the owner's ignores stay |
| coverage policy (`coverage_cmd.rs`) | installed tools, `target/coverage/coverage.json` | install what is missing, measure, evaluate | cargo-binstall and its record, `coverage-policy.json`, other commands in the checkout | a restored record without the tool; a report of an earlier or another run; code and policy edited meanwhile | a run passes on a report completed since; setup fails for a reason only |
| agentic worker store (`dw_cmd.rs`) | the store's entries, installed `.gtpack` files | publish, install | other publishers and installers | metadata and artifact are two requests; damaged downloads; a stop in `write_atomic` | what is installed is an artifact the store held, whole |
| distributor client (`distributor.rs`) | none | requests with a selected profile | one service | its profile comes from the configuration | – |
| MCP commands (`mcp_cmd.rs`) | none | doctor, dispatch | other programs | none of its own | – |
| component commands (`component_cli.rs`) | `target/`, `<out>/<name>/<version>/` | new, validate, pack | the author's editor, cargo, other shells | the artifact is read twice; a directory is cleared and filled file by file; artifacts of other targets lie about | `SHA256SUMS` stands for a whole pack; what was built is what is validated |
| configuration (`config.rs`, `cmd/config.rs`, `distributor.rs`, `delegate/component.rs`) | the configuration files | set a key; choose and read a file, choose a profile and a program | other shells, three environment variables | which file is read and which written; three places for a profile; read-modify-write without a lock | what is set is what is read next; a setting leaves other profiles alone |
| command line (`main.rs`, `cli.rs`), helpers | none | parse, dispatch | every command | none of its own | – |
| build and CI scripts (`xtask/`, `ci/`, `scripts/`, `tools/`) | none of the program's | – | – | – | – |

How they interact: the release commands and the tool installation share the
version resolver of `release_cmd.rs` and the catalogue; `snapshot --source
github-releases` calls the dev-release source for every package; the wizard and the
pass-through commands run other programs and never share files with the release
commands; the tenant installation and the tool installation write different
directories since `install --tenant` no longer installs tools; the pack build calls
the component resolver, which reads a component directory of the developer's own and
not the files `component_add` and `pack_init` cache. The distributor client and the
delegates read the configuration before their first request. The security report, the
coverage policy, the worker store, the flow runner and the component commands each keep
their files to themselves: no two of them read what the other one writes. The
workspace, the resolver, the pack build, the component commands and the flow runner are
library code that `main.rs` does not reach today.

The hazards of this code, each at its line and with the properties that would catch
it, are in `PROJECT.json`.

## 2. Modules

| module | what it models |
|---|---|
| `CrateVersions` | versions as integers ordered as semver orders them, split into plain and research builds, and what the resolvers return |
| `ToolchainManifest` | manifests and the pure decisions about them: pins, assembling, the stable-lane gate, gtc's files, whom to notify |
| `ToolchainLanes` | abstract specification of the registry: what any release command may ever do to it |
| `ReleaseRegistry` | the release commands, step by step; implements `ToolchainLanes` |
| `DevReleaseSource` | the choice of a dev build for one package |
| `TenantInstall` | `install --tenant` |
| `WizardLauncher` | `wizard`, `wizard validate`, `wizard apply` |
| `ToolInstall` | `install tools` |
| `Workspace` | both ways of adding a component, and the directory made of a pack |
| `PackBuild` | the pack build with the component resolver |
| `SecurityPolicy` | what an alert is, the filters, the categories, what blocks, what is shown where |
| `SecurityReport` | `security`, from its first request to its exit |
| `CoverageRun` | `coverage`, with the installation of its tools |
| `WorkerRegistry` | abstract specification of the worker store: an installation takes an artifact in one step and puts it in place in another |
| `WorkerStore` | `dw publish` and `dw install`; implements `WorkerRegistry` |
| `ConfigFiles` | `config set`, and the choice and reading of the configuration by every other command |
| `ComponentPack` | `component validate` and `component pack` |
| `FlowTranscripts` | validating a flow and writing its transcript |
| `NestedValues` | YAML values as nested functions and `merge_node` as the recursion over them, the reference for the merge of `FlowTranscripts` |
| `Pipeline` | the commands CI runs on a repository (component packs, security, coverage, dev releases), side by side |
| `Authoring` | what a developer's commands keep on disk (worker store, configuration, transcripts), side by side |
| `MC*` | values of the constants of one module for TLC |
| `PipelineProofs`, `AuthoringProofs` | theorems and proofs about the four modules of `Pipeline` and the three of `Authoring` |
| other `*Proofs` | theorems and proofs about the module of the same name |

`ToolchainManifest` and `ToolInstall` extend `CrateVersions`; `ReleaseRegistry`
extends `ToolchainManifest`, takes the manifests a GitHub snapshot can assemble from
`GithubManifests`, and instantiates `ToolchainLanes` with its own `registry` and
`dispatched`. `SecurityReport` extends `SecurityPolicy`; `WorkerStore` instantiates
`WorkerRegistry` with what its entries, files and clients stand for. The others stand
alone because the code they model shares no state with the rest.

`Pipeline` and `Authoring` put modules without shared state side by side: each
EXTENDS one of them (`ComponentPack`, `WorkerStore`) and instantiates the others with
variables of their own. They have constants for all of them, so that one module of
proofs can be about all; `MCPipeline` and `MCAuthoring` give them values. In their runs a variable
`component` says which one moves in a behaviour, while the others stay in one initial
state: interleaving steps of components that cannot see each other would only multiply
the states. Every invariant is checked in the initial states of all and in the reachable
states of the one that moves. The instantiated modules state what their constants satisfy as an operator
(`PolicyAssumption`,
`CoverageAssumption`, `FilesAssumption`, ...) which the MC module asserts and the theorems assume.

### Conventions

* A process is a shell or CI job and keeps its program counter (`pc[p]`, in the newer
  modules `stage[p]`); a command that
  ended may be followed by another of the same process. Variables after `pc` are the
  command's locals, those before it are shared.
* One action is the code from one remote call or file write to the next, so whatever
  other processes do in between is seen. `Stop` and `Kill` end a command at any step: a
  request failed, an error was returned, or the process was killed. The registry and the
  disk stay as they are; nothing the code persists is undone on failure. The locals are
  not read by a later command: `Begin` sets or resets them.
* A document, manifest or archive is a record of the fields a property tells apart. An
  `ok` field stands for all checks the code makes before it writes anything for that
  entry (`TenantInstall`); their order is not observable.
* `history` variables (`begun`, `usable`, `moved`, `recorded`, `overlapped`,
  `initialised`, `alone`, `own`, `steady`, `since`, `failures`, `settings`, `rebuilt`,
  `disturbed`) record what was true at an earlier step for a property and are never read
  by a guard.
* `fs::write` is two actions wherever somebody reads the file back (`Workspace`,
  `SecurityReport`, `ConfigFiles`, `ComponentPack`): one truncates, one fills, and filling
  what another process filled in between may leave a mixture of both.
* Log entries of `exec.log` are the numbers of the commands that wrote them.

### Correspondence with the code

`PROJECT.json` maps every definition to its lines. The main ones:

* **ReleaseRegistry.** `registry` is the OCI repository `greentic-versions/gtc`, `index`
  crates.io, `assets` and `gtcAssets` the files of GitHub releases, `dist` the `--out`
  directory, `dispatched` the `repository_dispatch` events sent. `LoadSource`,
  `LoadPromoted` and `LoadFile` are the three ways of getting a manifest;
  `Bootstrap`/`PushBootstrap` are `bootstrap_source_manifest_if_needed`, where a source
  that the credentials may not read counts as missing (`LoadOutcomes`);
  `ResolveForPush`/`ResolveForFile` are version resolution with writing the file;
  `GateCheck` is one pin of `verify_manifest_releases` and `GateVerdict` its end;
  `NameGtc` is `gtc_artifacts_for`; `Authorize`, `CheckExists`, `PushRelease` and
  `PushTag` are the registry requests; `PullRelease` is promote's second read;
  `Notify` is `notify_updater_dispatch`. The resolution of all pins is one action though
  the code asks crates.io once per package. With one process nothing is lost: a version
  that appears after its package was asked for might as well appear after the whole
  resolution, because the command does not look again. With two processes and two
  packages a combination could be; the concurrent run has one package, and no theorem
  uses which versions were resolved. A token that may not read a tag
  and a missing tag both load as nothing, as in the code.
* **DevReleaseSource.** `ReadPage` is one request of `releases_page` with the loop around
  it, `Choose` the selection among the complete candidates,
  `RefuseUncleanCommit` the check of the commit's verification and of the worm marker.
  CI's `CreateRelease` puts a release in front of the list and so shifts the pages.
* **TenantInstall.** `Fetch` reads the manifest from the GitHub release or from OCI;
  anything may have been published there by now, including another tenant's manifest.
  `Download` is download, checks and the file in `downloads/`; `Extract` writes one entry
  of the archive with `write_atomically`, ahead of the binary everything is written;
  `ArchiveEnd`/`Chosen` pick the binary by name, by similarity or the first file;
  `EnsureExecutable` sets its mode; `KeepManifest` and `RecordState` are the last two
  files.
* **WizardLauncher.** A run directory is `--out` or the clock's second (`OutDir`), and
  `resolve_out_dir` is asked in `PersistDelegated` and again in `BuildPlan`. `LogRun`
  appends to `exec.log` before `RunDelegate`; after a success the answers and the plan
  are written again with the plan marked as executed.
* **ToolInstall.** The channel comes from the executable's name. `EnsureCargoBinstall`
  is the probe and the decision, `Resolve` the research version of one package,
  `InstallWithBinstall` one run of `cargo binstall`, `Finish` the list of failures.
  What a successful run does is `Binstall`: cargo-binstall is external and has a record of
  its own (`recorded`, `~/.cargo/.crates.toml`); for a version it has on record it does
  nothing (`UpToDate`, as `coverage_cmd.rs:202` says of it), unless `--latest` (`latest`)
  makes `binstall_args` pass `--force`. `byhand` records which binaries were changed behind
  that record since (`SideLoad`: a release archive put in place by hand, a cache that
  restores the record without the binary), `stale` which tools another shell held a
  research pin of when the command began.
* **Workspace.** `add` is `component_add.rs`, `fetch` is `run_component_add` of
  `pack_init.rs`, `init` its `run`. `Obtain` is both requests to the distributor.
  `OpenArtifact`/`WriteArtifact` and `TruncateManifest`/`FillManifest` are one `fs::write`
  each: the file is torn in between, and two writers that truncated the same file leave
  either content or a mixture (`Filled`). `LoadManifest` reads the manifest, which fails
  on a torn one. `CheckDirectory` is the test in `slug_to_dir`, `MakeDirectory` the later
  `create_dir`, `ExtractEntry` one file of the archive.
* **PackBuild.** `Prepare` is `prepare_component` and the look at the resolver's cache
  under the name asked for and the version found; `ReadManifest` is the separate reading
  in `to_resolved_component`, and both end in `Resolve`, which validates the payload.
  `NodesResolved` reports all payloads that were refused; `WriteConfig` is one file of
  `write_resolved_configs`; `BuildPack` is the pack file, in the second pass a temporary
  one; `Compare` is `verify_determinism`. `PackOf` is what greentic-pack is given; it reads the artifacts again and is taken to refuse
  one that has not the hash it is given with.
  `alone` records that no other shell was building. The pack and a resolved
  configuration are each written in one action: what a reader sees of half a file is not
  what the properties are about.
* **SecurityReport.** `Query` is one `gh api` request of `fetch_source` with its three
  outcomes (`Answered`, `Unavailable`, `Refused`); the alerts of a source are kept
  (`Keep`) after its last state. `ReadConfig`, `TruncateConfig` and `FillConfig` are
  `ensure_foxguard_config`; `RunFoxguard`, `InstallFoxguard` and `RetryFoxguard` are a
  call, the installation of a missing foxguard and the call again, once for the scan and
  once for secrets; `WriteReport`/`FillReport` are the separate report, `Verdict` the
  policy. A write that fails half-way is a warning for the first file and the end of the
  command for the second. `Triage` and `Edit` are the world.
* **CoverageRun.** `Ensure`, `EnsureBinstall` and `Install` take one tool of the list
  further; `StartRun`, `WriteReport` and `EndRun` are what cargo llvm-cov does while it
  runs, `RunFails` its failure; `FindReport`, `LoadPolicy` and `Evaluate` are the three
  reads before the exit code. `Violations` compares covered lines with percentages as
  fractions of whole numbers.
* **WorkerStore.** `ReadDescribe`, `ReadArtifact` and `Post` are `run_publish`;
  `GetMetadata` and `Download` the two requests of `run_install`; `CreateTemp`,
  `WriteTemp` and `Persist` are `write_atomic`. A verified download is `Take` of the
  abstract store, the rename is `Put`.
* **ConfigFiles.** `ConfigPath` is `config_path`, where `config set` writes, and
  `Selected` is `resolve_config_path`, from where everything is read. A document is a
  function from key paths to values without a value below another one; `Apply` is
  `apply_key`. `DistributorProfiles` merges the three places a profile may stand in;
  `ResolveProfile` picks the one that is asked for, or the default, by name or inline.
  `settings` and `configured` record what was reported of each file, and so which file
  each environment has read so far (`ReadBefore`).
* **ComponentPack.** `Candidates` is `candidate_artifact_paths`; `ReadArtifact` is the
  first read with all checks (`Satisfies`), `OpenFile` of the artifact the second read,
  made by `fs::copy`; `RemoveFile` and `RemoveDirectory` are `remove_dir_all`.
* **FlowTranscripts.** One node is one action, as its component is described once and
  from then on taken from `plans`. A YAML value is a function from positions (the keys on
  the way) to scalars, with `Mapping` where there is something below; so the merge needs
  no recursion: `merge_node` descends wherever both values are mappings (`Descends`),
  stops at the positions of `Met` and logs a `Mark` there. That this is the code's
  recursion is checked: `MCAuthoring` asserts that the value and the marks are those
  of `NestedValues`' `MergeNode`, which follows `merge_node` call by call, for all pairs
  of values up to two levels deep. A transcript's name is its flow's stem and the second
  (`OutputPath`), and writing it truncates the file first.

## 3. What is checked

All passing runs set `CHECK_DEADLOCK FALSE`: every module bounds the commands started,
and after the last one has ended, and the world has published everything it may, the
system has legitimately stopped. There is one type invariant per module. Where it is
proved (section 5) no run repeats it, but for `TypesOK` of `pipeline` and `authoring`,
where the types of several modules hang together with what the commands do.

| run | question | distinct states |
|---|---|---|
| `release_sequential` | One engineer, no `--force`: are `:stable` and everything the workflow heard of downloadable? | 63,335 |
| `release_concurrent` | Which guarantees survive two processes with `--force`, a promote and a generate from `stable` in any order? Is every step one of `ToolchainLanes`? | 563,100 |
| `release_options` | Do all channels, sources and flags end, and do manifests name only gtc files that exist? | 250,520 |
| `release_promote_race` | Does promote move what it verified? (no) | – |
| `pipeline` | What do `SHA256SUMS` and a passing `security` or `coverage` say, and is the newest dev build pinned, while GitHub, the checkout, its builds and its tools change? | 980,852 |
| `security_page` | Does "pass" mean that no selected alert was open? (no) | – |
| `install` | What do the installation's files and its record promise, with two shells and archives of every shape? | 97,739 |
| `wizard` | Are runs recorded and logged, and does nothing run unasked? | 1,381,805 |
| `tool_install` | Is no tool forgotten, and is what is installed new enough? | 7,300,232 |
| `workspace` | What do the manifest, the cache and a pack's directory promise when shells overlap and stop in the middle of a write? | 1,526,285 |
| `pack_build` | Does the pack serve its nodes, and are the configurations the pack's, while components are rebuilt and the flow is edited? | 2,477,688 |
| `authoring` | Do an installed worker, a setting and a transcript hold what the command that wrote them promised? | 825,873 |

### Release

`StableDownloadable` and `DispatchedDownloadable` say what the comments in
`release_cmd.rs` promise to one engineer. They do **not** survive concurrency: two
publishers without `--force` may both find the tag missing and the later push wins, and a
promote may move a manifest it did not verify. The concurrent run therefore checks what
does survive:

* `PastGateVerified`: what passed the gate stays downloadable at every later step of the
  command (release files are never removed).
* `TagsBackedByRelease` and the refinement `ImplementsLanes`: a tag is never ahead of the
  release it names, wherever a command stops between its two pushes. That the workflow
  can pull what it is told of (`DispatchedPullable`) is proved.
* `StableMovesVerified`: `:stable` moves onto something unverified in exactly three ways,
  which `UngatedMove` names: a bootstrap of the source tag `stable`, a promote that pulls
  something else than it loaded, and a release that is itself named `stable`. The
  exception is tied to the process whose step it is.
* `DispatchVerified`: the workflow is told only by a process that verified a manifest of
  the stable channel.

Bounds: three commands are a publish or snapshot, a promote and a third that disturbs
them, which is the longest interaction the code has (a promote needs one earlier
publish). Two packages in the sequential run make the gate take two steps with an upload
in between; two targets in the concurrent run, one of which never gets its checksum, tell
"some archive" from "every archive". Versions 1 and 2 are enough for "an older pin is
kept"; `release_options` adds a research build 3 in another lane. CI uploads only files
that belong to a published or pinned version: other files cannot change a verdict.

### Pipeline

*Dev releases.* Five releases and two pages of two (`MaxPages`, so that the limit is met):
the first page may hold no dev build, only incomplete ones, or shift between two requests;
one dev build is from an unclean commit and one does not name its archives.
`NewestAtStart` compares the pin with the complete dev builds there were when the snapshot
began, so a build created meanwhile may or may not be chosen, but an older one may not,
and whatever is pinned can be installed.

*Security.* One command that asks GitHub, with four option lists (one source filtered
out by its states, two states of one source, either severity filter), an alert or a finding
changing once between any two requests, pages of one alert so that an answer is cut, and
an owner's `.foxguard.yml`; and two commands that only look at the checkout, with every
finding and every place foxguard may be installed in, with an owner's `.foxguard.yml`,
none, or one that cannot be parsed. `PassMeansClean` is about a command without a warning, a missing feature or a cut
answer, and about alerts that stayed as they were from its start (`steady`): an alert
that changes state between two requests may be missed by both. `OwnIgnoresKept` excepts
updates that overlapped, or were stopped or failed while writing, which do lose the
owner's entries.

*Coverage.* Two commands (a run, `--skip-run`, offline), four machines (complete, only
rustup, a record without its tool, no rustup), two measurements, two policies or none or
an invalid one, one edit. `since` holds the reports completed since the command's own run
ended, so that `PassMeansMeasured` accepts another run's newer report and refuses every
older one.

*Component packs.* Two shells with one command each or one with two, one edit: two
versions (directories), a `provider.toml` whose path is of a target that is not built, and
what an earlier build left there. `SumsHold` excepts directories in which two commands
overlapped, which one of them is clearing, or which got an artifact built again between
the two reads. `BuildIsValidated` is about `component validate` and `component pack` with
a build: which artifact is taken after it.

### Tenant installation

Two shells, two tenants, three installations. The archives are of five kinds: a second
tool's binary in front of or behind its own, a binary named with its version, one with an
unknown name, none at all, a wrong checksum. `StateBacked`, `OnlyVerifiedFiles`
and `KeptForTenant` hold for any overlap. `ToolsRunnable` is stated for
a shell that is alone (`Alone`), because two shells that install two versions of one tool
may legitimately leave either, and for archives that do not carry another tool's binary
ahead of their own; both limits are part of the property's statement, the second one of
the values in `MCTenantInstall`.

### Wizard

Eleven command lines cover the four entry points with and without a terminal, `--out`,
`--emit-answers` and `--migrate`; eight documents cover each branch of
`load_answer_document`. One tick of the clock is enough for the two calls of
`resolve_out_dir` to disagree; two commands are enough to share a directory.
`RunRecorded` is for a launcher that is alone, since a shared directory holds the files
of the last writer.

### Tools

Two tools of which the second is never published, two plain and two research versions
interleaved in their order, one plain version that the research crate falls back to, one
side-loaded version newer than the oldest release, two shells with one command each (or
two commands of one shell, so that the second finds the record of the first), with and
without `--latest`. `StillNewEnough` promises the record's version to every command, and
the binary's where it was given `--latest` or nobody changed the binary behind the record:
otherwise cargo-binstall reports success and leaves the old one. It excepts a tool of
which another shell held a research pin when the command began (`stale`), because such a
pin may replace a newer build; a pin resolved later knows what this command knew.

### Workspace

Two shells and three commands: two that overlap and one that comes after them. The eight
offers hold what each property needs to be false: a component rebuilt under its version
(`EntryHoldsDigest`), two coordinates with one cache slug, a version semver cannot parse
(refused by `fetch`, 0.0.0 for `add`), two packs whose names give one directory, one with
an entry that would leave it, and answers of the wrong kind. `NoAdditionLost` is stated
for updates that did not overlap: two that do lose one, as any read-modify-write without
a lock. It also excepts a torn manifest, which no later command can read or repair.

### Pack build

Two shells, two builds and two changes: a rebuild between two nodes and one more between
describing a component and reading its manifest, or between the two passes of a strict
build. The three builds differ in version, schema and first operation; two have the same
version, as a component that is rebuilt without a new version has. The two flows have
two nodes of one component, a requirement that excludes a version, one component under
two names, a built-in and a `component.exec` node. `PackServesNodes` is stated
for packs that ask for each component under one name; with two names the resolver caches
two builds of one version and packs the first. `ConfigsMatchPack` is for a build that had
the workspace to itself.

### Authoring

*Worker store.* Two clients, two versions, two artifacts, three commands each, one
directory: a version published again between the two requests of an installation, with
the same or another artifact, a download that is damaged, a command killed with a
half-written temporary file. `ImplementsRegistry` says of all that: an installation takes
one artifact the store held at some moment and puts exactly that one in place, or leaves
what was there.

*Configuration.* Two shells, one of them perhaps with a variable that names a file, three
commands: two that overlap and one that reads afterwards. The three disks hold a file with
root-level profiles, a file with an inline default in front of an empty one, and a
named file whose default is a legacy table; the settings are a tool, a profile of either table and a value where a table
must be, so that `config set` also creates a file, in front of one that is there or
not. `SetTakesEffect` and `ProfilesKept` are about settings that no other shell
disturbed (`disturbed`): two that overlap do lose one. `ProfilesKept` compares, for every
environment, what its commands resolved from the file they read before with what they
resolve from the file they read now. It excepts a file created in front of the one that
was read (`Shadows`), after which nothing of the older file is read any more: on the first
disk a tool set without `--file` creates `xdg`, and profile `a` in `home` is gone.

*Transcripts.* Two flows of one stem, two seconds, four documents: nested
mappings, a default that is overridden with null, keys that contain a dot, a node that is
no mapping, one that the schema refuses; a component described otherwise once meanwhile.
`TranscriptTells` leaves out documents with a key that contains a dot, which the log
cannot tell from a path; `TranscriptKept` excepts two flows of one stem in one second.

### Fairness

Only `release_options` uses fairness: `FairSpec` has weak fairness of `Step(p) \/
Stop(p)` for every process. A running command is an ordinary process that nothing
blocks: it takes no lock, every remote call has a result or an error, and an error ends
it. Where no step is enabled (no version can be resolved) the code reports an error,
which is `Stop`. Nothing is assumed about the start of commands, CI or crates.io.
`CommandsEnd` then says that no combination of options makes a command loop.

### Symmetry

The shells of `install`, `tool_install`, `workspace`, `pack_build` and `pipeline`, the
clients of `authoring` and the launchers of `wizard` run the same code and are interchangeable model values; no liveness is checked in these runs.
`CHOOSE` occurs only in the initial value of a local that `Begin` overwrites before it is
read. The release runs use no symmetry.

### Mutants

For every property of a passing run, `PROJECT.json` names a small change of one mapped
definition (a guard dropped, an order swapped, a failure not counted) with which TLC finds
the property violated. The changed forms stand in the modules before the definition they
change and are used nowhere else.

## 4. Findings

* **promote moves what it did not verify** (`release_cmd.rs:398`): the release tag is
  pulled again after the gate. `release_promote_race`.
* **A pass is about the first page of every answer** (`security_cmd.rs:147`): the alerts
  are asked for without `--paginate` and filtered afterwards, so that one the filters
  select and that lies behind a page of others neither blocks nor is mentioned.
  `security_page`.

Seen while modelling, without a run of their own:

* Dev releases: the search ends at the first page with a candidate, complete or not
  (`release_github_source.rs:148`), though the module's comment promises the newest
  complete one.
* Security: overlapping commands may leave `.foxguard.yml` without the owner's ignores or
  as a mixture that cannot be parsed (`security_cmd.rs:384`).
* Coverage: when every file with lines is excluded, the report's total stands in and
  counts the excluded files (`coverage_cmd.rs:466`).
* Configuration: the first variable that is set decides, whether its file exists or not
  (`config.rs:211`), while `docs/distributor.md:14` says of the same list "first existing
  wins".
* Configuration: `config set` without `--file` writes the first candidate whether it is
  there or not (`config.rs:257`), while everything is read from the first that exists
  (`config.rs:247`). Where only a later candidate existed, the new file hides it: the
  setting takes effect, and every other setting and profile is gone for all commands.
* Component packs: an artifact of another target is taken when the one `provider.toml`
  names is not there (`component_cli.rs:631`).
* Transcripts: defaults come from the built-in registry only (`dev_runner/runner.rs:195`),
  though `docs/scaffolder.md:49` says that transcripts record defaults and overrides
  directly from the component's schema; and a stub of the registry is preferred to what the
  component describes (`dev_runner/registry.rs`), though `docs/scaffolder.md:65` says that
  the runner prefers the artifact's schema.
* Release: a `generate` from a missing `stable` pushes a bootstrap to `:stable` without
  the gate, and a source that the token may not read, or whose image has no toolchain
  layer, counts as missing (`release_cmd.rs:1763`, `1771`), so that the bootstrap
  replaces what is there; two publishers without `--force` may overwrite each other.
* Tools: `install tools` without `--latest` reports success while an older binary stays, or
  none is there: it does not pass `--force` (`passthrough.rs:381`), and cargo-binstall has
  nothing to do for a version on its record, as `coverage_cmd.rs:202` says, although the
  release archives that operators are told to side-load (`passthrough.rs:301`) change
  binaries behind that record and `docs/cli.md:181` promises that the command bootstraps
  missing tools. A research pin may replace a newer build of another shell; a research version
  that cannot be resolved ends `install tools` in the middle of its list
  (`passthrough.rs:229`), though a comment in the same function says the list is finished
  first.
* Wizard: two launchers of one second share a run directory
  (`wizard/persistence.rs:24`), and the first delegate may apply the second's document;
  the document and the plan may lie in two run directories; `--emit-answers` with
  `--answers` is not delegated (`wizard/mod.rs:498`), though `docs/wizard/README.md` says
  it is; the executor's version pins are compared with inputs that are always empty
  before the run.
* Workspace: a process that ends while it writes the manifest leaves one that every later
  command refuses; overlapping additions lose one or leave a mixture that cannot be
  parsed; `component_add` and `pack_init` name the same component differently, so it may
  have two entries; names with one slug share a cached file; the digest of an answer
  names the file but is not compared with its bytes; a directory left half unpacked keeps
  the same command from being repeated.
* Pack build: a strict build that fails leaves the pack of its first pass in place; the
  manifest in the pack may be of a newer build than what the payload was validated
  against, and the operation taken from it is not validated; a default operation is
  given only to nodes whose payload stands under the component's own id, and never to
  `component.exec` nodes; a component asked for under two names may be packed in a build
  one of its payloads was not validated against.

## 5. What is proved

TLAPS checks every proof for all values of the constants that satisfy the modules'
assumptions, which say only what the types are: tags contain the channel tags, command
lines are those clap accepts, versions are positive integers, "nothing" values are not
real ones. No assumption bounds the number of processes, packages or versions.

**ReleaseRegistryProofs.** `TypeCorrect`, `GateSound` (PastGateVerified), `TagsBacked`,
`DispatchedFound`, `StableMoves`, `DispatchesVerified`, and `RefinesLanes`: the commands
implement `ToolchainLanes`. None of the invariants is inductive alone. The inductive one
is `TypeInv /\ GateProgress /\ PastGateVerified /\ PushProgress /\ TagsBackedByRelease /\
DispatchedPullable`. `TypeInv` adds to the types what holds at each stage (a manifest is
there when it is pushed, a promote has its tag). `GateProgress` says that a pin not in
`todo` any more was found downloadable or `clean` is false, so that an empty `todo` with
`clean` gives `PastGateVerified`; that it stays true needs that release files are never
removed (`DownloadableMonotone`). `PushProgress` says that whoever is about to push a tag
or to notify has the release it names in the registry, and that needs that no step
deletes a tag (`RegistryKeeps`). The refinement then shows that each step that writes is
a `Release` or a `Move`, that a dispatch is a `Tell`, and that the rest stutters.

What the registry promises to one engineer is proved too: `StableAlwaysDownloadable`
(StableDownloadable) and `DispatchedAlwaysDownloadable` (DispatchedDownloadable), under
`OneEngineer`: there is one process, and its commands use no `--force`, generate from no
`stable` and from no release (whose tag a bootstrap may replace), name no release `stable`
and take the tags of the channels. The sequential
run's constants satisfy it, and each of its parts is needed (section 3, Release). The
inductive invariant `SoleInv` adds `Undisturbed` (what the command has seen of the
registry is still there: a release about to be pushed is new, one that is about to be
tagged or dispatched is the one in memory, a promote's source is what it loaded),
`NotStable` and `ToldDownloadable` (what the workflow was told of is a numbered release,
which nothing overwrites). `GtcFilesNamed` (GtcFilesPublished) holds for any number of
processes where no manifest file written by hand names gtc's files; `publish --manifest`
takes over such names as they are. Its invariant `GtcInv` says the same of every
manifest, in a file or in memory.

**TenantInstallProofs.** `TypeCorrect`, `StateIsBacked`, `FilesAreVerified`,
`ManifestsAreTheTenants`, `RecordsAreComplete`, `ToolsAlwaysRunnable` (ToolsRunnable). The inductive invariant adds `Counted`
(the lengths of the lists of installed binaries and documents follow `next`), `Verified`
(the tool being extracted passed its checks) and `OnDisk` (what a command lists as
installed is there, whoever replaced it since), which is what makes `state.json` true
when it is written; no step deletes a file (`FilesStay`). `ToolsAlwaysRunnable`
assumes `OwnBinaries`: no archive of a manifest carries the binary of a tool listed before
its own. The archives of the `install` run satisfy it, and without it the last archive's
file is what the name stands for. Its invariant `Undisturbed` is about a shell that
is alone: `ExtractedOf` follows one archive (the first file, the similar one and the one
of the tool's own name are in the directory as far as the archive was read), `InPlaceOf`
the tools already in place. `AloneStep` reduces every step to the shell's own, because no
shell becomes idle again.

**WizardLauncherProofs.** `TypeCorrect`, `ExecutedLogged`, `NothingUnasked`,
`RunsAreRecorded` (RunRecorded, without a further hypothesis). The
inductive invariant adds `Numbered` (a log names only commands that were started, and
numbers are not shared) and `Logged` (a launcher past its log entry finds it in its
directory). For a launcher that is alone `Undisturbed` adds what it has written by each
stage and that it is still there (`FilesOf`), and that a plan past the delegate is marked
unless it was a dry run (`MarkedOf`).

**ToolInstallProofs.** `TypeCorrect`, `BinstallFirst`, `ForgetsNothing`,
`InstallsNewest`, `StaysNewEnough`. The last two rest on what `UpToDate` says of
cargo-binstall and are about its record first; of the binary they say what the record
allows. The inductive invariant adds `Begun` (the index only grows), `Pinned` (a pin is at
least as new as what the index had when the command started), `PinsKnow` (so is a pin that
another shell resolved since then), `Passed` (every package behind `next` failed,
succeeded or had no build), `Fresh` (what succeeded is still new enough on record, and
after `--latest` nobody has changed it) and `OnRecord` (a binary nobody changed is the
one on record). `ChoiceIsNewEnough` is the lemma about the resolvers and binstall's choice
they rest on, `ChoiceForOthers` the same for another command that is running.

**WorkspaceProofs.** `TypeCorrect`, `AlwaysCached`, `AlwaysItsDigest`, `AlwaysOneEntry`,
`NothingLost`, `AlwaysOnePack`: all the run's properties and two more. The inductive invariant adds
`Control` (a shell past its request holds an offer, and one with a digest has that
digest's bytes), `OneEach` (also what a shell has read of the manifest has each name
once), `Cached` and `Digested` (the same for what it will write, and every file named by a
digest is missing, torn or has its bytes), `Sole` (an update alone has read every
addition reported) and `Unpacking` (whoever unpacks has the directory to itself and in it
what it extracted so far). It rests on one assumption beyond types, `DigestAssumption`: a
digest names one artifact's bytes, and no name slugs to a digest.

**PackBuildProofs.** `TypeCorrect`, `AlwaysServed`, `AlwaysOneDefault`, `AlwaysMatching`:
all the run's properties. The inductive invariant adds `Resolving` (the cache has one
component of each name and version, every resolved node has its component from there, no
node twice, and its payload is accepted as long as nothing was refused) and `Written` (no
other shell is at work, and the configurations behind `next` are those of the resolved
nodes). `PackServes` is the lemma about the pack made of such nodes; that one artifact of
each id and version is the first needs `Least`, the least-number principle, which follows
from the library's theorem about well-founded relations.

**PipelineProofs** is about the four modules of `Pipeline`, each under its own assumption.

*Component packs.* `TypeCorrect`, `SumsAlwaysHold` (SumsHold) and
`ValidatesItsBuild` (BuildIsValidated). That the last file makes a directory whole needs
what lies in it before; the inductive invariant adds `Control` (what a shell has read by
its stage), `Still` (an artifact that nobody built again is the one that was read or
built), `Sole` (in an undisturbed directory one shell lays files, and whoever else is
there has not removed any yet) and `Laid` (its files are, in order, written, torn or
missing). `FirstIsThere` is the lemma about the candidates' order.

*Coverage.* `PassesAreMeasured` (PassMeansMeasured) and `SetupFailuresHaveCauses`
(SetupFailureHasCause). The inductive invariant adds to the types that tools are left
while they are being ensured, that a status code stands for a verdict, and `Fresh`: past
its run a command reads a report that is one of `since`.

*Dev releases.* `LookupsTyped` and `NothingOlderIsPinned` (NewestAtStart), for any page
size and any number of releases. The releases are listed from the newest to the oldest
(`Descending`); while the search goes on, no page read so far has held a build that was
complete at the start (`Ahead`: a release put in front of the list only moves the others
to later positions), so the newest candidate of the page that ends the search is at least
as new as all of them (`NewestReady`), and so is the pick (`NewestPick`). `PagePositions` is the lemma about which
positions a page holds; the first match of a page exists by `LeastOfNaturals`.

*Security.* `ReportsTyped`, `NothingBlockingIsMissed` (PassMeansClean),
`EveryAlertIsListed` (NothingHidden) and `OwnersIgnoresStay` (OwnIgnoresKept).
`PassMeansClean` compares alerts the command read one request at a time with those that
were there all along. The inductive invariant adds `Reading` (which source and which of
its states the command is at, and which tools are still to run), `Seen` (as long as
nothing was skipped or cut, an alert that was there from the start is among those read,
or its request is still to come) and `Verdicts` (a verdict follows from the alerts kept).
`NextSource` says which sources `SourceFrom` passes over, `WholePage` that an answer
shorter than a page is complete. `IgnoresKept` is the invariant of the shared file: it
holds the owner's ignores, or one undisturbed command that has read them is writing them.
That the states asked for are states of the source (`StatesForType`) is a fact about a
recursive function; it is proved from the least position where it would fail.

`PipelineTyped` collects the types of the three modules that run beside `ComponentPack`
(TypesOK).

**AuthoringProofs** is about the three modules of `Authoring`.

*Worker store.* `TypeCorrect` and `Refinement`, that `WorkerStore` implements
`WorkerRegistry`. Here `TypeOK` is inductive by itself: it says that an entry of the store
has its own hash, that a client past the download holds an artifact of the hash it was
told, and that a temporary file is whole when it is renamed. It rests on
`DigestAssumption`: no two contents have one hash.

*Transcripts.* `FlowSeesOneSchema` (OneSchemaPerComponent), `TranscriptsTell`
(TranscriptTells) and `TranscriptsStay` (TranscriptKept), for values of any depth and any
number of flows. The inductive invariant `FlowInv` says of every task what `plans` has of
each accepted node's component (`NodeValid`, `TaskValid`), that its transcript is the one
`Assemble` makes of its nodes (`Assembled`, `TaskOf`), and that its file holds that
transcript once it is written and is empty while only it fills it, as long as no other
transcript has its name (`OwnFile`, `FileOf`). `TranscriptsTell` is then about `Merge`
alone: on the way to a leaf of the merged value there is a least position where the two
values are not both mappings any more (`OneStop`, by the least-number principle), there
the one mark stands, and below it the merged value is the one that was taken. That a
log entry names one position only (`FlattenOfSingletons`, for keys spelt as in the log)
is a fact about a recursive function of the library, proved from the least prefix for
which it would fail.

*Configuration.* `SettingsTakeEffect` (SetTakesEffect) and `OtherProfilesStay`
(ProfilesKept), both about steps. The inductive invariant `ConfigInv` adds `FileTold` to
the types: a file that no overlap or interruption has disturbed has at most one writer;
whoever writes it holds everything reported of it with its own setting (`FilledIsTold`);
it is empty while it is filled and otherwise says all that was reported. `ConfigKnown`
says that a file of which something was reported is there and that of every other one
nothing is recorded; with it, `SameDocument` shows that what an environment read before
is what was reported of the file that was written, unless that one now hides another.
That a setting
leaves a profile as it was is a fact about keys: of two prefixes of one key one is a
prefix of the other, so what is neither above nor below the setting stays
(`ApartStays`, `ResolvedAsBefore`). Besides types, `FilesAssumption` says that the
schema lets no string stand where the table of a profile is.

`AuthoringTyped` collects the types of the three modules (TypesOK).

Some of the proved properties are in no run's cfg, because the theorem says more than the
run would: the type invariants, `DispatchedPullable`, `RecordComplete`, `BinstallThere`,
`NewestInstalled`, `EntryCached` and `OneEntryPerName`.

Only model-checked: `CommandsEnd` (liveness is out of the prover's reach), and that
`FlowTranscripts`' merge by positions is the recursion of `merge_node`: `NestedValues`
has RECURSIVE operators, of which nothing can be proved with this prover, so the two are
compared on bounded values. Every other property of a passing run is a theorem.

## 6. What is not modelled

Extension packs and components of a manifest (no command acts on them). The parsing of
versions, tags, URLs and JSON: a version is an integer with a lane, an asset a triple, a
document a record. Resolution of tokens, prompts and translation. `release view` and
`wizard --schema`, which only print. The table of external tools of
`install tools`, which is empty. The executor's guards on programs and arguments, which pass every plan
`build_plan` makes. Partial writes of one file: the code writes a temporary file and
renames it (tenant installation, worker store), or is assumed to write it whole (wizard,
release, pack build), since the next command overwrites it; where a file is read back,
`fs::write` is taken apart (section 2). What an alert says, and the markdown, HTML and
SARIF renderings. What a JSON schema accepts. `component new`, which fills a directory of
its own with templates and refuses one that exists. The `mcp doctor` report, which only
probes versions. Removal of releases, tags or files by hand. The components
without a module are listed with their reason in `PROJECT.json`.

## 7. Plan

Done, in this order, the most consequential first:

1. `ToolchainManifest`, `ReleaseRegistry` and their runs; then `ReleaseRegistryProofs`.
2. `ToolchainLanes` and the refinement.
3. `DevReleaseSource`, which `ReleaseRegistry` abstracts to `GithubManifests`.
4. `TenantInstall`, `WizardLauncher`, `ToolInstall`, each with its runs and proofs.
5. `Workspace` and `PackBuild`, each with its run and proofs.
6. `WorkerStore`, `WorkerRegistry`, the refinement and its proof.
7. `SecurityPolicy`, `SecurityReport` and `CoverageRun`; `FlowTranscripts`,
   `ConfigFiles` and `ComponentPack`; `Pipeline` with its proofs.
8. `Authoring` with its proofs; for them `FlowTranscripts` took its recursion over
   documents apart into positions.

Next:

9. An abstract specification of the workspace's manifest, a set of additions, that
   `Workspace` implements as long as no updates overlap; and one of the tenant's record.
