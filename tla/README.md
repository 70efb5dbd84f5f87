# dockguard in TLA+

dockguard scans a Docker host (daemon.json, the running containers and networks, a Compose
file) with a set of rules, scores what it finds, diagnoses why one service cannot reach another, and
can repair the daemon's configuration file. This directory holds TLA+ models of the parts of
dockguard where state, order, failure or the combination of many values decides whether it is
right, the TLC configurations that check the models, and TLAPS proofs of the main results for every
value of the constants.

## 1. Inventory

| Component (source) | State | Operations | Interacts with |
|---|---|---|---|
| **Applying a plan** (`remediators/daemon_remediator.py` `apply_plan`, `_backup_path`, `_copy_ownership`, `_rollback`; `cli.py` `fix_daemon`) | `daemon.json`, the temporary file `.daemon.json.dockguard.tmp`, the backups `daemon.json.bak.<second>[.n]`; per run: the plan read earlier, a pending exception | read, prompt, write the temporary file, copy owner and mode, validate, back up, replace, clean up, reload and compare, roll back | the file system, shared with other runs and with the administrator; `dockerd --validate` |
| **Planning and next steps** (`build_plan`, `_apply_patches`, `RemediationPlan`, `next_steps`; `cli.py` `fix_daemon`) | the plan: what was read, what was selected, the diff | choose the fixes, compute the new content, print the commands that put it in force | the daemon rules; the user; dockerd (reload, restart), containers (recreate) |
| **Daemon rules** (`rules/daemon/*.py`) | none (ten pure checks, five of them with a patch) | `evaluate`, `plan_fix` | the scan context |
| **Daemon configuration loading** (`core/collector.py` `load_daemon_config`, `_collect_daemon`) | none | read and parse `daemon.json`, note why it is unusable | the file system |
| **Scan engine, scoring, ruleset, exit codes** (`core/engine.py`, `core/scoring.py`, `core/ruleset.py`, `cli.py`) | findings, errors | run every enabled rule in isolation, override severities, count the points, choose the exit code | all rules, the reporters |
| **Collection of the scan context** (`core/collector.py` `collect`) | the context: daemon.json, compose projects, the Docker snapshot, notices and errors | collect what the selected categories' rules read, announce what is missing | the file system, Docker, the engine |
| **Docker runtime collection** (`core/docker_runtime.py`) | SDK or CLI backend | list containers, networks, info; fall back; give one reason | the Docker API, in several calls |
| **Compose loading** (`core/compose_loader.py`) | the files loaded so far | find the compose files of the named files and folders, read each with its override, merge | the file system, the user's editor |
| **Compose rules** (`rules/compose`) | none (twelve checks, eleven of them with an example of a fix) | judge each service of a project; COMPOSE-002 reads a Dockerfile too | the compose projects, daemon.json, the file system |
| **Dependencies** (`core/dependencies.py`, `core/collector.py` `_collect_dependencies`) | none | read dependencies.yaml, infer from depends_on who talks to whom | the compose projects, the Docker snapshot, NET-001 |
| **Connectivity diagnosis** (`diagnostics/connectivity.py`) | the steps taken so far | five steps: the containers run, the port listens, a network is shared, icc allows it, the address is right; each suggests a fix | the scan context, rule NET-001 |
| **Network rules** (`rules/network`) | none | four checks; NET-001 verifies every dependency | the scan context |
| **Reporters, templates, knowledge texts** | none | formatting; what the prompt of `fix daemon` promises and when a report praises are decided here too | the plan, the findings |

How a repair goes: `fix daemon` collects the context (one read of daemon.json), evaluates the daemon rules
on it, builds the plan and shows the diff, asks for confirmation, and calls `apply_plan`, which
writes, backs up, replaces, re-reads and, if what it re-reads is not what it wrote, rolls back. dockguard
never touches dockerd: it prints the commands (reload, restart, recreate) and the user runs them.

What is hard here, and what makes each part correct:

- *Applying.* All runs share one temporary file name and there is no lock; the plan is based on an old
  read; names are tested before they are used; every call can fail and the process can die between
  any two. Correct means: nothing that was in daemon.json is ever lost, whatever happens; an undisturbed run
  is one atomic update that keeps the permissions; the undo command that is printed really undoes; no temporary file
  stays behind; no backup is overwritten; an approved run ends.
- *Planning and next steps.* Ten rules, four kinds of value each and more, five patches, two ways to
  put a change in force, and a daemon that may run with other settings than the file holds. Correct
  means: a fix makes its own rule pass, a second run finds nothing to do, a run changes what it
  lists and nothing else, risky fixes only when named, a step announced as harmless stops no container, and
  once the advice is followed every fix is in force.
- *Scan.* A rule that raises or skips costs no points, and rules read data of areas that were not selected. Correct
  means: what a rule finds depends on neither; nothing is left out in silence; score and exit code say what is the case.
- *Connectivity.* Two independent decisions (the diagnosis and NET-001) about the same networks, over a
  runtime that changes. Correct means: a failed step explains a connection that really cannot work, and the fix it suggests makes it work.
- *Collection.* Several calls to a Docker that changes in between, and a second backend that starts over where
  the first failed. Correct means: the snapshot invents nothing and misses nothing, and the reason given is the right one.
- *Compose.* Files are looked for, then read one after the other, and may be edited in between; they can be named in several
  ways; two files are merged by kinds of value, and a dozen rules look at the result, each with an example of a fix that touches what others look at.
  Correct means: each file is judged once, nothing named is left out, what is judged was there at one moment, an override hides nothing
  it does not replace, and following the examples removes the issues and brings in none.
- *Dependencies.* A service name means a container only within a project, and projects are recognised by a name that is not unique.
  Correct means: every dependency of what runs here is verified, on its own containers, whatever else comes and goes on the host.

`PROJECT.json` lists the hazards line by line, with the property that covers each.

## 2. Modules

| Module | Models | Checked by |
|---|---|---|
| `AtomicUpdate` | abstract: what `fix-daemon` promises about daemon.json, one atomic read-modify-write per run | refined by `ApplyPlan` |
| `ApplyPlan` | `fix_daemon` and `apply_plan`, one action per system call another process can observe | `apply_in_turn`, `apply_concurrent`, `apply_same_second` |
| `DaemonRules` | pure: the ten rules' verdicts, and the plan made of them | through `Remediation` |
| `Remediation` | plan, confirm, write, follow the advice; dockerd and the containers | `remediation_careful`, `_careless` |
| `DockerHost` | external: containers and networks, how they change, and who really reaches whom | extended by `Connectivity` |
| `Connectivity` | `diagnose connectivity A B` and NET-001 on one snapshot, and the user following each fix | `connectivity`, `_host_pair` |
| `Collection` | `collect_runtime`: both backends call by call, on a Docker that changes (external), or a snapshot file | extended by `Scan` |
| `Ruleset` | pure: the rules, their severities, where a ruleset is looked for, when it is refused and what it means | extended by `Scan` |
| `Scan` | `dockguard scan` from the options to the exit code | `scan`, `scan_userns` |
| `Compose` | loading, merging and judging compose files, while they are edited | `compose` |
| `Dependencies` | what NET-001 verifies and whom its names mean, with projects coming and going | `dependencies`, `dependencies_missing` |
| `MCApplyPlan`, `MCRemediation`, `MCConnectivity`, `MCScan`, `MCCompose`, `MCDependencies` | the instances TLC checks | |
| `ApplyPlan_proofs`, `DaemonRules_proofs`, `Remediation_proofs`, `Connectivity_proofs`, `Collection_proofs`, `Scan_proofs`, `Compose_proofs`, `Dependencies_proofs` | TLAPS proofs | |

### ApplyPlan

| Code | Model |
|---|---|
| `load_daemon_config`, the plan, the early exits of `fix_daemon` | `Load` (to "refused", "quit" or "confirm") |
| `--dry-run`, the two prompts | `Confirm` |
| `tmp.write_text` | `OpenTmp` (create or truncate), `FillTmp` (the bytes reach the open file, wherever it is linked by then) |
| `_copy_ownership` / `NEW_FILE_MODE` | `CopyOwnership` |
| `validator(tmp)` | `Validate`: accepted, rejected, or not able to tell |
| `_backup_path` | `NameBackup`, with `FreeName` |
| `shutil.copy2(path, backup)` | `BeginCopy`, `EndCopy` |
| `os.replace` | `Replace` |
| `except PermissionError`, other `OSError`s | `TryFails`; `exc` is the pending exception |
| `finally: if tmp.exists(): tmp.unlink()` | `Finally`, `Unlink`: two calls; `FinallyFails` is either of them raising an OSError other than "already gone" |
| reload and compare | `Reload` |
| `_rollback` | `BeginRollback`, `EndRollback`, `RollbackFails` |
| SIGKILL, power loss | `Crash` |
| the administrator's editor | `Edit` |

A text is the set of settings it holds; a file being written is `Blank` (just truncated, loads as `{}`) or `Partial`
(does not parse). `fd` says where the file a run has open for writing is linked now: a rename or an unlink by
another run moves it, so a late write can reach daemon.json itself. The administrator saves either way: by a rename, which
leaves such handles to the file that was replaced (`Relinked`), or in place, like the `sudo cp` that `next_steps` prints as the undo
(`daemon_remediator.py:376`), after which a handle that had moved to daemon.json is still there. An in-place save that is not finished is
an edit of its own, one that leaves `Blank` or `Partial`. A `finally` that fails ends the run as "uncleaned": whatever was pending, nothing is read again and
the temporary file may stay. (`Path.exists` of recent Python versions returns False on such errors instead of raising them; the file then stays too, and
the run goes on. It is taken to raise here.) `Exclusive` chooses between runs (and edits) in turn and
free interleaving; an edit may always happen between a run's end and the next run's start. `versions` and `saved` (the file found first, or
last saved by the administrator while no run is between its backup and its end and none has an open handle on daemon.json) are history variables.

### DaemonRules and Remediation

A config maps each setting to the kind of value the rules distinguish: absent, of a bad type, each value
with a meaning of its own, and, for a Boolean, the `number` (0 or 1) Python finds equal to the recommended
value. `Verdict` is the rules' `evaluate`; `Fixable`, `Fixes`, `NewValue`, `After`, `HasChanges` and
`PlanMethod` are `plan_fix`, `build_plan`, `_apply_patches`, `has_changes` and `apply_with`; `Promise` is what the prompt
(`render_apply_warnings`) says of the containers, by code of its own, before `next_steps` says it again step by step.
`Remediation` has one action per thing that happens to the file or to dockerd: `Run` (up to the prompt), `Cancel`,
`Apply` (the write, in one step: its failures are ApplyPlan's), `FollowReload`, `FollowRestart`,
`FollowRecreate` (the next piece of advice), `Edit`, `AdminRestart`. dockerd is outside `src/` and modelled as the
tool's texts assume it: of the rules' settings a reload takes over live-restore and those of registries
(`Reloaded`; `insecure_registry.py:71`), a restart takes the whole file or fails, and it
keeps the containers if live-restore was on in the daemon that stops and in the one that starts.

### DockerHost and Connectivity

| Code | Model |
|---|---|
| `Container` (`core/context.py`): state, network mode, networks, published ports | `box`; mode "own" is a network list, a container stands for container:<x>, "gone" for an x created anew since |
| `parse_container`, `DockerRuntime.effective_networks`, the networks both have | `Attached`, `Effective`, `Shared`; both sides of the code use them, so both sides of the model do |
| `resolve`, `precheck`, the choice among a scaled service's containers | `Replicas`, `Found`, `Chosen` and the first case of `Steps` |
| `_step_containers`, `_step_port`, `_step_shared_network`, `_step_icc`, `_step_address` | `StepContainers`, `StepPort`, `StepNetwork`, `StepIcc`, `StepAddress` |
| `DiagnosisResult.root`: the first FAIL | `Root` |
| the fixes of each step (start; port; connect, or the compose network, or publish; a network of one's own; the address) | `FollowUp`, `FollowStart`, `FollowPort`, `FollowNone`, `FollowHost`, `FollowIsolated`, `FollowIcc`, `FollowAddress` |
| `bridge_icc_disabled`, `_pair`, `_worst`, `_check` of NET-001 | `BridgeIccDisabled`, `Usable` and `Pair`, `Worst`, `RuleVerdict` |
| the command NET-001 prints for a failed dependency | `Failing`, `Offered`, `FollowRule` |
| external: a common network or namespace; a published port | `Direct`; `ThroughHost`; `Reaches` is either |

Steps 3 and 4 of the diagnosis and NET-001 are separate code, and are translated separately: `Talks` asks of each shared
network whether it works, `Usable` removes the networks that do not. `RuleAgrees` is about these two.
The truth they are held against is `Reaches` of `DockerHost`: which network namespace a running container is in
(`Space`), what that namespace is linked to (`Links`), and whether a link is open (`Direct`); or whether the target's port is published
where the source can use it (`ThroughHost`): from the host on any address, from a container on all addresses, through the IP of the host, as step 5
says (`diagnostics/connectivity.py:553`). That last way presumes what Docker does by default: `docker-proxy`, and no firewall of the user's in between. Docker is not part of `src/`; `DockerHost`
says of it what the texts of the diagnosis say. Without anyone asking, containers are stopped, removed, created anew by
compose or by hand or disconnected, daemon.json is edited and dockerd restarted.

A fix is followed either for now (`ForNow`: docker network connect) or in compose (`Persist`: the declaration changes, and
the service's containers are created from it, which loses what was connected by hand). The target is one container;
the source is a service of several. The services are disjoint, and the containers of one are created from one declaration
(`HostAssumption`, `ConnectivityAssumption`). What step 5 reads from the environment is abstracted to the kind of host each
address names (the target's name, the source itself, an IP address, an alias), in order.

`Ordinary` excludes two cases in which code and Docker differ by design: a container that shares the namespace of a
container that does not run, or that itself has no networks (`Effective` gives it that container's networks, or compares
the mode's name), and a source and target in one namespace, which reach each other on localhost whatever the networks.
The host/host pair, the most common of the latter, is a finding of its own.

Neither steps 3 and 4 nor NET-001 look at all published ports: a container without a common network may still reach the target through the host's IP, and one on the host
a target that uses the network of a container which publishes the port. These ways are `Bypass`. What a passing step promises is therefore a `Direct` way, and what a failed one
claims is `Cut`: no way, or a bypass at most. That NET-001 says "cannot communicate" all the same is a finding (section 5). Step 5 itself does not ask whether the port it names is published
on loopback only, in which case the bypass it WARNs about does not exist.

### Collection and Scan

| Code | Model |
|---|---|
| `SdkBackend.__init__`, `CliBackend.__init__` | `Connect`; a missing SDK or command, a denied socket, a Docker that is down: `CallFails` |
| `containers.list(all=True, ignore_removed=True)`; `docker ps -aq` then one `docker inspect` of all ids | `List`, then `Inspect` one container at a time: the server answers one after the other. A container gone by then is skipped by the SDK and fails the CLI's inspect |
| `api.networks()`; `docker network ls` then `inspect` | `ReadNetworks` (the SDK in one answer), `InspectNetwork` |
| `backend.info()`, its failure swallowed | `ReadInfo` |
| `except DockerUnavailable` in `collect_runtime` | `Fail`: what was read is dropped, the next backend starts over |
| `classify_docker_error` | `Failures`: the classes of message each cause can give; a timeout and everything unknown is "other", but whatever goes wrong while the SDK connects can be "not running" (`Wraps`): docker-py puts a timeout, a TLS error or an HTTP 500 there into "Error while fetching server API version" |
| `_ERROR_PRIORITY` and the choice among several reasons | `Reason` |
| `SnapshotBackend`, read by `collect_runtime` in place of both: good, no snapshot, an item that is none, no text | `client["file"]`, `ReadFile` |
| the options of `scan`: what they select, which files they name | `Commands`, `Selected`, `SetupOf` |
| `find_ruleset_file`, `find_daemon_config`: the first of several places | `FirstThere` |
| `load_ruleset`: one wrong key, name or severity and the file is refused; of a name given twice the later entry counts | `Verdict`, `Overrides`, `LastEntry` of `Ruleset` |
| missing files, `_load_ruleset`, no rule enabled | `Begin` |
| `_collect_daemon`, `_collect_compose`, `collect_runtime` within `collect`, with what each announces | `CollectDaemon`, `CollectCompose`, `CollectDocker` and `DockerCollected` (with `_collect_dependencies`, whose file may be wrong or no text) |
| `ScanEngine.run`: one rule in its `try`, overrides | `RunRule` |
| `calculate_score`, `grade_for`, `--fail-on` | `Score`, `Grade`, `Blocking`, `Report` |
| `_emit_report` when the reader of the pipe is gone or the file cannot be written, `_exit_on_closed_pipe` | `ReportFails` |
| `TerminalReporter.render`: the closing praise | `Praised`, `NoError` |

Six rules stand for all; they are the ones whose data cross areas: COMPOSE-003 (falls back to the daemon's default),
DAEMON-002, DAEMON-006 (asks docker info first), NET-002, NET-003 (reads icc from the bridge or from daemon.json) and NET-004
(falls back to compose). A compose service and daemon.json keep just what these rules tell apart. That a rule has a defect and raises is an
input (`buggy`). In `Collection`, `box` and `net` are Docker itself, `got` and `gotnet` what has been read; `was` and `netwas` are history: all
that was true of a container or network since the backend at work was tried first. Docker's changes are outside `src/`; a container is
identified by its id, so one that is gone does not come back. Containers with network mode none or container: are left out here (they are in Connectivity).
A daemon.json that is not UTF-8 ends the scan with a traceback (`load_daemon_config` catches OSError and JSON errors only):
the exit code "crash", from which nothing is promised. So do a ruleset, a snapshot and a dependency file of that kind.
A snapshot file is the state of some other Docker (`Files`); while it is read nothing changes. The rules' ids of a ruleset file are what
`strip().upper()` leaves of them, so that two of its keys may be one name.

### Compose

| Code | Model |
|---|---|
| `COMPOSE_FILENAMES`, `OVERRIDE_FILENAMES`, `find_project_file`, `find_override_file` | `ProjectNames`, `OverrideNames`, `FirstOf`: two of the four names of each kind, in order |
| `discover_compose_files`: `os.walk` with its depth and skipped folders, all of it before the first file is read | `Reached`, `FoldersOf`, `TakeTarget`, `Search` (one folder) |
| `add` in `collect_compose_projects`: the override is looked for, the file is loaded once | `Add`, with `Notice` |
| `_read_yaml` of the file, then of the override; the two early returns | `ReadBase`, `ReadOverride`, `Loaded` |
| `deep_merge` | `Merge`, `MergeServices`, `MergeService`, `MergeSetting` |
| `ComposeProject.error`, `services` | `Sound`, `ServicesOf` |
| `ComposeRule.check`, one finding for a project, its worst issue | `Verdict`, `Findings`, `Judge` |
| `check_service` of each of the twelve rules | `PrivilegedIssues`, `UserIssues`, ..., `PortIssues` |
| the example each issue offers | `Fix` |
| editors, git | external: `Edit` |

A setting is a scalar, a list or a mapping; of an item the model keeps what some rule tells apart: the kind of a name
(a secret's, another), the kind of a value (in the clear, a reference, a file), the container's and the host's port. Names and images are
represented by one or two of each kind; `Scalar`, `Items`, `Entries` are how the rules read a value of whatever kind it is.
`past` is the history of the disk. The Dockerfile in a service's build folder stands for all of them.
Each example is put where the user would put it: a list setting in it is what the service then has. COMPOSE-005's example refers to a variable of the secret's own name
(`Reference`); `${API-KEY}` is, to Compose and to the rule, a variable `API` with the default `KEY`, so for a name with a hyphen the example is reported again. `FixesHold` says that this is the only
issue an example leaves (`Misread`). It is about the service the issue is in: the socket proxy that COMPOSE-004's example adds to the project mounts docker.sock itself, and is reported in turn.

### Dependencies

| Code | Model |
|---|---|
| `load_dependency_file`: all of it or nothing | `Declared`, `GoodItem` |
| `project_is_running`, by the project's name or the path of a config file | `ProjectIsRunning` |
| `infer_compose_dependencies` (without services in another's namespace) | `Inferred` |
| `_collect_dependencies`: a declared pair is not inferred again | `Deps` |
| `resolve` of NET-001: the project's containers, the container of that name, any service of that name | `Resolve`, `ByName` |
| `_check`: something is there of both, a target runs, the worst of all sources | `Verdict`, `AllSources` |
| `docker compose up` and `down`, with `-p`, stop, rm, network connect and disconnect | external: `Up`, `Down`, `Stop`, `Remove`, `Connect`, `Disconnect` |

Whether two containers reach each other is Connectivity's subject; here it is a network they share. A compose file is up under one
project name at a time. No dependencies.yaml and one that is broken have the same effect, apart from the message.

## 3. Runs

| Run | Bounds | What it shows |
|---|---|---|
| `apply_in_turn` | 2 runs, 2 settings, 1 edit, same second, suffix up to .1 | `TypeOK`, `Recoverable`, `UndoRestores`, refinement `IsAtomic`, `Terminates` |
| `apply_concurrent` | 2 interleaved runs, own seconds, 1 edit at any moment (1.86 million states) | `SavedKept`, `TmpGone`, `BackupsNotOverwritten` |
| `apply_same_second` | 2 interleaved runs, one second | violation: a finished backup is overwritten |
| `remediation_careful` | 24 or so configs, 2 hosts, both platforms, 5 selections, 2 runs, 1 edit | `KeepsContainers`, `TakesEffect`, `DiesOnlyWarned`, `FixesResolve`, `OnlyPlanned` |
| `remediation_careless` | as above, the user skips advice | violation: a restart announced as harmless stops the containers |
| `connectivity` | 2 source containers, 1 target, 1 whose network others share; the bridge, 2 custom networks, each open or blocked; 11 setups; 2 ports and addresses; 2 changes | `NoFalsePass`, `NoFalseAlarm`, `RuleTrue`, `RuleAgrees`, `NeverBackwards`, `Repaired`, `RuleRecovers` |
| `connectivity_host_pair` | `FailedPairs`: source and target on the host network; or on different networks with the target's port published on all addresses | violation: NET-001 says they cannot communicate. TLC stops at the first pair it finds; with `FailedPairs == {PublishedPair}` in `MCConnectivity` it finds the other |
| `scan` | 2 containers, the bridge, the host network and a custom one; 3 hosts, 2 snapshot files, 5 pairs of clients and 4 states of a named snapshot file, 17 commands of options, files, rulesets and defects; 2 changes of Docker (725 thousand states) | `TypeOK`, `NothingInvented`, `NothingMissed`, `ReasonTrue`, `Accounted`, `SelectionNeutral`, `RulesetObeyed`, `ScoreTells`, `GreenIsTrue`, `RedIsTrue`, `Ends` |
| `scan_userns` | as `scan`, no change of Docker | violation: `scan -c daemon` fails DAEMON-006 on a host with user namespaces |
| `compose` | a folder with a subfolder, one too deep and one that is skipped, 4 starts with 3 edits each; and, without edits, a secure, an insecure and a broken service with every kind of setting, each with each other as its override, 4 Dockerfiles | `EachOnce`, `Covered`, `Snapshot`, `NeverWithout`, `OverrideApplied`, `FixesHold` |
| `dependencies` | 3 compose files, two of them of the same project name, 6 containers, 3 project names, an external network, 5 dependencies.yaml; 5 changes | `Verified`, `VerdictTrue`, `Isolated` |
| `dependencies_missing` | as above, no dependencies.yaml | violation: another project's container stands in for one that is gone |

*Why the bounds are enough.* In ApplyPlan every step of a run depends on the shared files and its own
variables only, so two runs exhibit every pairwise interleaving; three runs add no new kind of interference
with one temporary name. Two settings tell "mine", "the other run's" and "found" apart. With all runs in one second
and `MaxSuffix` 1, the second run needs the suffix. `NameBackup` is disabled when the suffixes are used up,
which with two runs never happens (`Terminates` would notice). One edit reaches every file an administrator can leave.
In Remediation two runs are needed for "a second run undoes or repeats the first" and one edit for
"between the runs". The configs of `SmallContents` vary live-restore (which decides the advice) over three
base files, and add one odd value at a time for the other settings; the theorems below remove this bound. In `apply_concurrent` an edit may come at
any moment, so `SavedKept` is checked with it between any two system calls of two runs; the theorem allows any number of edits.
In Connectivity two source containers are what a scaled service needs ("the first that runs", "the worst of all"); the
eleven setups have each network mode on each side, a shared bridge, a shared custom network, both, and none, and a port that is published on loopback or on all addresses; `app-net` is the
network the advice creates, absent at the start and never blocked. Two changes are enough to undo a fix and
to stop or recreate the other side. `NoFalsePass`, `NoFalseAlarm`, `RuleTrue` and `RuleAgrees` are proved
without these bounds, and so is `NeverBackwards`; for `Repaired` a longer chain of causes than five steps cannot occur.

In Scan two containers are what NET-003 needs to find a shared bridge, and two changes suffice to remove one container and add
another, or to stop dockerd and start it again, between any two calls. The commands contain each category alone and all together, each state of
daemon.json, of a ruleset and of a snapshot file, both places a ruleset is looked for, a compose file that cannot be parsed, severities raised and lowered past the threshold, enough CRITICAL findings to use up the
100 points, a rule that raises, and a ruleset that disables everything. What `scan` checks of
snapshot, findings, score and exit code is proved without these bounds; `Ends` is not.

In Compose the edits of a start are bounded (`edits`). A file and its override are read by two calls, after a call that
looked for the override: three edits fit one between any two of them. Both names an
override may have are edited in one folder, so that what `Snapshot` and `NeverWithout` exclude occurs. The starts name a folder, a file and its folder, and overlapping folders; `MaxDepth` 1 leaves out one folder by depth. For the
rules only the pair of files matters: `RuleContents` puts each change alone on a secure service and on an empty one, and `RuleStarts` holds all pairs of them.
All that `compose` checks is proved without these bounds.
In Dependencies the scaled `web` of `shop` needs two containers, the copy of `shop` in another folder has its project name,
and the database of `blog` is a container named like the service of the others. Five changes start three projects and
break two of their parts; what `dependencies` checks is proved without the bounds. The type invariants of Remediation, Connectivity, Compose and
Dependencies are not in the list of a run; they are theorems.

*Deadlock* is not checked (`CHECK_DEADLOCK FALSE`) because the program ends: all runs are finished or dead, or the
bounds are used up.

*Fairness.* `FairSpec` of ApplyPlan assumes weak fairness on `Step(p)`, the system calls an approved
run makes by itself. The process is scheduled and each call returns (with success or with an error), so a step that stays
enabled is taken. Nothing is assumed of the prompts (`Confirm`), of errors, kills or edits.
`FairSpec` of Connectivity assumes weak fairness on `Follow`: the user of the diagnosis goes on following its advice. A
step that changes nothing is a stutter, so the user does not for ever repeat a command without effect while the other
one offered would have one. Nothing is assumed of the host's changes, which are bounded by `MaxChanges`.
`FairSpec` of Scan assumes weak fairness on `Advance`: the program runs on, and each call returns, with an answer or an error (both backends
set a timeout). Nothing is assumed of Docker's changes, bounded by `MaxEvents`, or of which of several outcomes a call has.
`Repaired` is stated for setups in which no container shares the network of another: there the advice names the owner's
network, which a container in another's namespace cannot be connected to.

## 4. Proofs

All theorems hold for every number of runs, settings, configs and selections (the ASSUMEd typing of
the constants, `ConstantsAssumption`); extra assumptions are in the statement.

| Theorem | Extra assumption | Argument |
|---|---|---|
| `ApplyPlan_proofs!TypeCorrect` | – | `TypeOK` is not inductive: a run writes through a handle only if the file is still there. `TypeInv` adds that a handle points to an existing file and that a run that copies has a name and a source. |
| `RecoverableHolds` | `Exclusive` | the invariant says what each control point guarantees: while the run that is at work has not replaced the file, the file still holds its text; from the replace on, the backup named in `bak` is finished and holds what the file held |
| `BackupsKept` | `OwnSeconds`: runs use different seconds | a name in use belongs to one run; that run found it free, and a free name is only filled by its owner |
| `SavedKeptHolds` | `OwnSeconds` | as above, with the text found first or saved last: until a run's window opens it is in daemon.json, then in that run's backup (`KeptBy`). A save counts only if no run's handle is on daemon.json at that moment, and no handle gets there before the saved file is in a backup |
| `TmpGoneHolds` | – | `HeldTmp`: a temporary file there is has a run that opened it and has not been past its `finally`, or was killed, or whose `finally` failed |
| `UndoRestoresHolds` | `Exclusive` | `UndoInv`: from the replace on, the backup named holds what the plan was built on, and a later run takes a free name |
| `AtomicHolds` (`ApplyPlan` implements `AtomicUpdate`) | `Exclusive` | `AtomInv` adds to `UndoInv` what the files are, not only their text: the temporary file that is moved is what was planned, with the permissions of the file found; the backup is that file until the run has ended; and from the replace on daemon.json is what was planned on it (`Planned`), until a rollback rewrites it from the backup. With it each step is a `Begin`, `Commit`, `Undo`, `Abort`, `Break` or `Edit` of `AtomicUpdate`, or a stutter |
| `Remediation_proofs!TypeCorrect` | – | `After` keeps a config a config (`AfterIsConfig`) |
| `FixesResolveHolds` | – | lemma `AfterResolves` (a patched config passes the rules that patched it) and `AfterQuiet` (the same selection finds nothing more); patches of different rules touch different settings (`Owners`) |
| `TakesEffectHolds` | – | `InForce`: each fix is in force already or a step still ahead puts it there, and recreating comes last |
| `DiesOnlyWarnedHolds` | – | a validated file parses, so a start fails only for the profile, which the plan leaves as it was |
| `OnlyPlannedHolds` | `Careful` | the file is what was planned on while the prompt waits; only DAEMON-001 owns icc, and a risky rule is in the plan only by name |
| `KeepsContainersHolds` | `Careful` | `Harmless`: the advice not yet followed keeps its word from the state dockerd is in now, step by step |
| `Connectivity_proofs!TypeCorrect` | – | `TypeOK` is inductive: every fix that attaches a container creates the network it names (`Available`), and no step makes a network vanish |
| `NoFalsePassHolds`, `NoFalseAlarmHolds`, `RuleTrueHolds` | – | from `TypeOK` alone, in every state: the networks `Effective` computes are the links of the namespace the container is in (`OwnNetworks`); hence a network that talks is a direct way (`TalkingReaches`) and no way but a bypass is left where steps 3 or 4 fail (`ShutBlocks`) |
| `RuleAgreesHolds` | – | of one pair both sides fail in the same cases (`SameVerdict`), and the container diagnosed is one the rule looks at (`ChosenIsReplica`) |
| `NeverBackwardsHolds` | – | what comes before the root cause has not failed, and the fix leaves it so: containers only come to run, ports stay published, networks are only added. A step that may recreate the service can change which of its containers is diagnosed; `Alike`, which is inductive, says that all of them are then as that one's declaration has them |
| `RuleRecoversHolds` | – | connecting a container adds a link and removes none; the network offered is one of the target's own, and is open |
| `Collection_proofs!CollectionTyped` | – | `CollectTypeOK` with what the calls may change |
| `NothingIsInvented`, `NothingIsMissed` | – | `Genuine` and `Whole`: what was read was true, and what has existed all the while is read or still to be read. A change of Docker makes history larger, so less has been there all the while; a failing backend drops all and history starts again |
| `ReasonIsTrue` | – | `Told`: each reason is true of the backend that gave it (`FailureIsTrue`), "not running" of a dockerd that was down or an SDK that could not connect, and there are two when both failed |
| `Scan_proofs!ScanCollects` | – | every step of a scan is a step of the collection or leaves it alone |
| `SelectionNeutralHolds` | – | `Flow`: what has been collected when the rules run covers what each enabled rule needs (`Needs`), and the findings are those of the rules run so far; with what it needs, a rule finds what it finds with everything (`AllTheSame`) |
| `AccountedHolds` | – | as above; a rule that does not raise finds something (`NeverNothing`) unless there is no compose file it could read |
| `RulesetObeyedHolds` | – | `FailedFlow`: past `Begin` the file in force was accepted; `InForceIsRead`: it is the one that was read; `LastCounts`: of a name the last entry is the one kept |
| `GreenIsTrueHolds`, `RedIsTrueHolds` | – | what holds all the while is in the snapshot and fails its rule (`CertainFails`), what fails was so at some moment (`FailsPossible`); the bridge is never removed and info() is true (`Lasting`) |
| `ScanTypeCorrect` | – | with the findings and the score typed: the rules are finitely many, so of each severity the failures can be counted (`CountsWhole`), and the points are a sum of five products (`DeductedSum`) |
| `ScoreTellsHolds` | – | a failure worse than INFO makes its count positive, one of CRITICAL takes 40 points; the score is what is left of 100, and a report shows it as it is when it is written |
| `Compose_proofs!TypeCorrect` | – | with the merge of two contents typed |
| `LoadedOnce` | – | `Once`: every project's file, and the one being loaded, has been noticed; the one being loaded is no project yet |
| `OverrideIsApplied` | – | of a list setting the base's items stay (`NothingIsHidden`), of a scalar the override's remains (`OverrideIsJudged`), and a service only the base names is merged as it is; the findings, once made, are those of the projects (`Judged`), and a rule's worst issue is at least as bad as each |
| `JudgedTogether` | – | `Reading`: each project was looked up and read at moments of its history, the override last (`Taken`); whichever two of the three files are settled, one of these moments is the one at which all three stood as judged |
| `MovesAreSeen` | – | a scalar of the merged file is the override's, or the base's and the override says nothing of it (`Whose`), and either way it is merged so (`SetWins`, `SilentKeeps`); the override is read last, and once it has the scalar it keeps it |
| `NothingLeftOut` | – | `Holding`: what was named and has been taken up is known, or its folder waits to be looked into (`Held`); an edit makes the history longer, so less has been there all the time |
| `FixesAreGood` | – | of each rule, which settings it looks at, and of each example, which it touches: where these are disjoint the issues are the same; the overlaps, such as COMPOSE-001's example and COMPOSE-010 (`cap_add`), one by one; what COMPOSE-005's example leaves in the clear are the references to names with a hyphen |
| `Dependencies_proofs!TypeCorrect` | – | `StateOK`: a container that is missing has no project, and no change gives it one |
| `AllVerified` | – | a container from the project's file makes it run, whatever its label; a pair that is not inferred is declared |
| `VerdictIsTrue` | – | of a project under its own name `Resolve` gives exactly its own containers of a service, if there are any; of a name nothing bears, none |
| `VerdictsAreIsolated` | – | as above, before and after the step: containers that are neither the project's nor labelled with its name are not resolved |

That a non-empty set of numbers has a first element (`FirstIn`) is derived from the well-founded order of finite sets, which
the library states without an operator parameter.

*Only model-checked:* liveness under fairness (`Terminates`, `Repaired`, `Ends`), which the prover does not treat. Every invariant and
every action property of a run that passes, and the refinement, is a theorem. Nothing that is proved about is defined by
recursion: results about recursive definitions would need induction over data, which the installed provers cannot instantiate.

## 5. Where code and documents disagree

Each of these six is found by a run, as a violation of the statement:

1. *Two runs in the same second* (`apply_same_second`): the comment at `daemon_remediator.py:264` says a backup is not overwritten; the name
   is tested before it is used, so overlapping runs do overwrite it.
2. *"The containers are kept"* (`remediation_careless`): `daemon_remediator.py:355` says so from the file's live-restore, not from the
   daemon's. If the user skipped an earlier reload, the restart stops every container.
3. *Two containers on the host network* (`connectivity_host_pair`): `rules/network/dependency.py:205` says they cannot communicate; they
   share one namespace. Line 219 asks the target for a published port before it looks at the target's mode.
4. *A port published on all addresses* (`connectivity_host_pair`): line 205 says the same of two containers on different networks whatever the target publishes;
   `diagnostics/connectivity.py:556` says of such a port that a bypass may work, and `tests/test_connectivity_diagnosis.py:319` leaves the verdict open for it.
5. *User namespaces and the selection* (`scan_userns`): `core/collector.py:118` says data of areas not selected are collected if they are needed. DAEMON-006
   asks Docker first, which is collected only for network: `scan -c daemon` fails it on a host where a full scan passes it.
6. *"Both containers exist"* (`dependencies_missing`): `rules/network/dependency.py:6` says so, but a service of another project of the same name
   is taken for one that is gone.

Observed while modelling, and not stated as properties:

- An edit that is saved while the prompt of `fix daemon` waits is reverted by the write, although the diff did not show it (`cli.py:451`); it
  survives in the backup. With `Careful` FALSE, `OnlyPlanned` does not hold.
- A Boolean written as 0 or 1 is listed as fixable and then dropped without a word, because Python finds `1 == True` (`daemon_remediator.py:81`).
- NET-001's command "to restore it right now" (`rules/network/dependency.py:208`) connects the first container of the source to the first custom network of the
  target, also when it is on that network already and the network is blocked.
- `README.md:551` says that of a folder that is named the override is merged; with `-f srv/compose.yaml -f srv` the file is loaded without it, and the folder adds nothing.
- `core/context.py:3` says rules never read files; COMPOSE-002 reads the Dockerfile when it runs. In the model it does not change meanwhile.
- `docs/decisions.md:210` says that compose files for other servers are left out; one whose folder has the name of a project that runs here is verified against
  that project's containers (`core/dependencies.py:91`).
- The docstring at `daemon_remediator.py:287` promises a RemediationError on failure; only PermissionError is converted, any other
  OSError leaves `apply_plan` as it is.
- `diagnostics/base.py:12` says everything is checked to the end; step 5 returns at the first address that is not the target's name, and
  a `localhost` behind it is not reported.
- A daemon.json that is not UTF-8 ends a scan with a traceback, though `docs/decisions.md:218` says that a failed collection is recorded.
  So does a compose file; `Compose` leaves such files out.
- A container removed between `docker ps` and `docker inspect` makes the CLI backend unavailable as a whole; the network rules then SKIP, and SKIP costs no points.
- For a target on the host network step 3 advises the host's IP address, and step 5
(`diagnostics/connectivity.py:553`) fails that address because the target publishes no port.
- An override that names a service with nothing after it (`web:`) replaces all that the compose file says of it: the service is then judged as if it were empty.
- Of two `no-new-privileges` options the first counts, and after a merge the first is the compose file's: an override that switches it on is not seen by COMPOSE-003.
- COMPOSE-011 accepts `${IMAGE:-app:latest}`, because a default counts only if it is exactly `latest`.
- An override that is created between the look-up and the reading of the file is not merged; if two of the files are edited meanwhile, also the two names of an override, the pair read may never have existed
  (`Snapshot` says when it did).
- The example COMPOSE-005 offers for a secret with a hyphen in its name, `API-KEY: ${API-KEY}`, is reported again as a default in plain text (`compose_facts.py:47`).
- The socket proxy COMPOSE-004 advises mounts docker.sock, and COMPOSE-004 reports it.
- A dockerd that answers too late or with an error while the SDK connects is said not to run (`docker_runtime.py:57`), if the CLI does not answer either. The docker command itself is
  taken to be there, or not, during all of a scan.
- A restore by the printed `sudo cp` (`daemon_remediator.py:376`) writes daemon.json in place: while a run is between opening and filling a temporary file that another run has installed, its late
  write lands in what was just restored. `SavedKept` leaves this case out, like the two moments below.
- A pair in dependencies.yaml takes the place of the pairs of these names of every project, and is resolved without a project; `Verified` accepts it for each. Two
  projects of the same name count as one, for NET-001 and for `Verified`.
- An edit that is saved between `copy2` and `os.replace` is overwritten and in no backup, one between the replace and the comparison is
  rolled back (`daemon_remediator.py:312`); `SavedKept` says that outside of these windows nothing is lost.
- On Docker Desktop the prompt says that a reload is enough and the containers are kept, where `next_steps` goes on to advise a restart.
- The last command `next_steps` prints, and the footer of a dry run (`reporters/remediation.py:90`), drop `--daemon-config`: they scan another file.
- A terminal report without a FAIL, WARN or error praises the host even if every rule was skipped (`Praised`).
- With `--snapshot` the findings mix another host's containers with this host's daemon.json (icc of NET-003).
- An item of a snapshot that is none is told as a failure to talk to Docker (`docker_runtime.py:244`), though there is no Docker involved.
- A snapshot, ruleset or dependency file that is not UTF-8 ends in a traceback, and its exit code, 1, is also that of a report with
  findings and of a closed pipe.
- YAML keeps the last of two `disabled:` keys without a word. A ruleset in the working directory hides the one in /etc, even if it is empty.
- `find_daemon_config` takes /etc/docker/daemon.json first, also for a user whose Docker is rootless.

## 6. Not modelled, and plan

Not modelled: the reporters, templates and knowledge texts as far as they are formatting, the serialisation of JSON, the demo, scripts
and CI files.

Plan, in this order:

1. `AtomicUpdate`, `ApplyPlan`, `ApplyPlan_proofs` (done): the only part that writes to the host.
2. `DaemonRules`, `Remediation` and their proofs (done): composes the rules with the plan, the file and dockerd.
3. `DockerHost`, `Connectivity`, `Connectivity_proofs` (done): the diagnosis and NET-001 against who really reaches whom.
4. `Collection`, `Collection_proofs` (done): non-atomic reads, SDK to CLI fallback.
5. `Scan`, `Scan_proofs` (done): collection, rule isolation, overrides, score, grade and exit code.
6. `Compose`, `Compose_proofs` (done): loading, merging, the twelve rules and their examples.
7. `Dependencies`, `Dependencies_proofs` (done): inference and the names NET-001 resolves.
8. `Ruleset`, the snapshot file in `Collection`, the options and the ends of `scan` (done): what a file that is wrong does to a scan.
9. The proofs of what the runs check (done, except for liveness).
10. Left: NET-001's verdict in `Scan`; the `diagnose` command's exit codes over a Docker that changes while it is asked.
