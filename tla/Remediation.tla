----------------------------- MODULE Remediation -----------------------------
(***************************************************************************)
(* From a finding to a daemon that behaves: `dockguard fix daemon` plans   *)
(* on what daemon.json says, writes it (here in one step: ApplyPlan has    *)
(* the file system and its failures) and tells the user which commands to  *)
(* run next; dockguard itself never touches dockerd.  The user follows the *)
(* advice in order, or drops it; dockerd loads the file when told to.      *)
(***************************************************************************)
EXTENDS DaemonRules, Naturals, Sequences

CONSTANTS
  Contents,    \* the daemon.json an administrator may write
  HostStates,  \* the hosts to look at
  Selections,  \* the --rule options to try, {} for none
  MaxRuns,     \* bound on the runs of fix-daemon
  MaxEdits,    \* bound on the edits by hand
  Careful      \* TRUE: the user finishes what is advised before anything else,
               \* edits only then, and a live-restore edit is loaded before a run

ASSUME ConstantsAssumption ==
  /\ \A c \in Contents : IsConfig(c)
  /\ HostStates \subseteq Hosts
  /\ Selections \subseteq SUBSET Ids
  /\ MaxRuns \in Nat /\ MaxEdits \in Nat /\ Careful \in BOOLEAN

VARIABLES
  file,      \* daemon.json
  host,      \* what else the rules look at
  linux,     \* sys.platform
  running,   \* the settings dockerd has loaded
  created,   \* the settings the containers were created under
  alive,     \* dockerd is up
  phase,     \* "idle", "prompt" (waiting for the confirmation) or "advised"
  plan,      \* what the last run planned on and was asked for
  verdict,   \* what `dockerd --validate` said of the last plan
  steps,     \* the advice not yet followed
  outage,    \* have the last run's steps stopped containers, and did they say so
  runs, edits

vars == <<file, host, linux, running, created, alive, phase, plan, verdict, steps, outage, runs, edits>>
dockerd == <<running, created, alive>>

Outages == {"none", "warned", "unwarned", "unsaid"}

TypeOK ==
  /\ IsConfig(file) /\ host \in Hosts /\ linux \in BOOLEAN
  /\ IsConfig(running) /\ IsConfig(created) /\ alive \in BOOLEAN
  /\ phase \in {"idle", "prompt", "advised"}
  /\ IsConfig(plan.before) /\ plan.selected \subseteq Ids
  /\ verdict \in {"ok", "unknown"}
  /\ steps \in Seq([do : {"reload", "restart", "recreate"}, says : {"kept", "warned", "nothing"}])
  /\ outage \in Outages
  /\ runs \in 0 .. MaxRuns /\ edits \in 0 .. MaxEdits

Fixed == Fixes(plan.before, host, plan.selected)
Planned == After(plan.before, Fixed)
On(c) == c["live-restore"] = "true"

-----------------------------------------------------------------------------
(* dockerd, as the tool's texts and `dockerd --validate` describe it.      *)
Parses(c) == \A k \in Keys : c[k] \notin {"bad", "number"}
Starts(c) == Parses(c) /\ c["seccomp-profile"] # "missing"

\* SIGHUP: a file that does not parse is ignored, and only these of the rules'
\* settings are reloaded.
Reloaded == {"live-restore", "insecure-registries", "registry-mirrors"}
Reload ==
  /\ running' = IF Parses(file) THEN [k \in Keys |-> IF k \in Reloaded THEN file[k] ELSE running[k]] ELSE running
  /\ UNCHANGED <<created, alive>>

\* A restart keeps the containers only if live-restore is on before and after.
Restart ==
  IF Starts(file) THEN running' = file /\ UNCHANGED <<created, alive>>
  ELSE alive' = FALSE /\ UNCHANGED <<running, created>>
Interrupts == ~On(running) \/ (Starts(file) /\ ~On(file))

Recreate == created' = running /\ UNCHANGED <<running, alive>>
-----------------------------------------------------------------------------
Init ==
  /\ file \in Contents /\ host \in HostStates /\ linux \in BOOLEAN
  /\ running = (IF Starts(file) THEN file ELSE NoSettings)
  /\ created = running /\ alive = TRUE
  /\ phase = "idle" /\ plan = [before |-> file, selected |-> {}]
  /\ verdict = "unknown" /\ steps = <<>> /\ outage = "none"
  /\ runs = 0 /\ edits = 0

\* fix_daemon up to the prompt.  Without changes, or with --dry-run, it ends.
Run(selected) ==
  /\ alive /\ runs < MaxRuns
  /\ phase # "prompt"
  /\ Careful => steps = <<>> /\ (On(file) => On(running))
  /\ HasChanges(file, Fixes(file, host, selected))
  /\ plan' = [before |-> file, selected |-> selected]
  /\ phase' = "prompt" /\ steps' = <<>> /\ outage' = "none" /\ verdict' = "unknown"
  /\ runs' = runs + 1
  /\ UNCHANGED <<file, host, linux, dockerd, edits>>

\* A prompt answered with no, a rejected file, an error: nothing changes.
Cancel ==
  /\ phase = "prompt" /\ phase' = "idle"
  /\ UNCHANGED <<file, host, linux, dockerd, plan, verdict, steps, outage, runs, edits>>

\* What the prompt says of the containers (render_apply_warnings), on every platform.
AlwaysKept == "kept"
Promise == IF PlanMethod(Fixed) = "restart" /\ ~On(Planned) THEN "warned" ELSE "kept"

\* next_steps (the closing `scan` and the undo command change nothing here)
Step(command, claim) == <<[do |-> command, says |-> claim]>>
RestartOnly == IF On(Planned) THEN Step("restart", "kept") ELSE Step("restart", "warned")
ForDaemon ==
  IF ~linux THEN Step("restart", "nothing")
  ELSE IF PlanMethod(Fixed) = "reload" THEN Step("reload", "kept")
  ELSE IF ~On(Planned) THEN Step("restart", "warned")
  ELSE IF On(plan.before) THEN Step("restart", "kept")
  ELSE Step("reload", "kept") \o Step("restart", "kept")
NoRecreate == <<>>
ForContainers == IF \E r \in Fixed : Recreates(r) THEN Step("recreate", "nothing") ELSE <<>>

\* apply_plan: what was planned is written, whatever the file holds by now.
Apply ==
  /\ phase = "prompt"
  /\ \E v \in {"ok", "unknown"} : verdict' = v /\ (v = "ok" => Parses(Planned))
  /\ file' = Planned
  /\ host' = IF host.stat = "nofile" THEN [host EXCEPT !.stat = "good"] ELSE host
  /\ phase' = "advised"
  /\ steps' = ForDaemon \o ForContainers
  /\ UNCHANGED <<linux, dockerd, plan, outage, runs, edits>>

\* The user runs the next command.
Follow(command) ==
  /\ alive /\ steps # <<>> /\ Head(steps).do = command
  /\ steps' = Tail(steps)
  /\ UNCHANGED <<file, host, linux, phase, plan, verdict, runs, edits>>
FollowReload == Follow("reload") /\ Reload /\ UNCHANGED outage
FollowRestart ==
  /\ Follow("restart") /\ Restart
  /\ outage' = IF ~Interrupts THEN outage
               ELSE [nothing |-> "unsaid", warned |-> "warned", kept |-> "unwarned"][Head(steps).says]
FollowRecreate == Follow("recreate") /\ Recreate /\ UNCHANGED outage

\* The administrator edits daemon.json, or restarts dockerd.
Edit ==
  /\ edits < MaxEdits /\ edits' = edits + 1
  /\ Careful => phase # "prompt" /\ steps = <<>>
  /\ file' \in Contents
  /\ phase' = IF phase = "advised" THEN "idle" ELSE phase
  /\ UNCHANGED <<host, linux, dockerd, plan, verdict, steps, outage, runs>>

AdminRestart ==
  /\ alive /\ steps = <<>> /\ phase = "idle" /\ Restart
  /\ UNCHANGED <<file, host, linux, phase, plan, verdict, steps, outage, runs, edits>>

Next == (\E s \in Selections : Run(s)) \/ Cancel \/ Apply
        \/ FollowReload \/ FollowRestart \/ FollowRecreate \/ Edit \/ AdminRestart

Spec == Init /\ [][Next]_vars
-----------------------------------------------------------------------------
(* Correctness.                                                            *)

\* A step announced as harmless to the containers (next_steps 347-355) stops
\* none, and where the prompt said that they are kept (render_apply_warnings
\* 111-120) no step does, if the written file parses.  Docker Desktop is
\* another matter: there the same is said of a reload, and a restart advised.
KeepsContainers ==
  /\ outage = "unwarned" => ~Parses(Planned)
  /\ outage # "none" /\ linux => Promise = "warned" \/ ~Parses(Planned)

\* Once all advised commands have run, every fix is in force: in dockerd and,
\* for the defaults of new containers, in the containers (next_steps 345-371).
TakesEffect ==
  phase = "advised" /\ steps = <<>> /\ alive /\ Parses(Planned) =>
    \A r \in Fixed : \A k \in Patched(r) :
      /\ running[k] = Planned[k]
      /\ Recreates(r) => created[k] = Planned[k]

\* Following the advice after a validated run takes dockerd down only for what
\* the scan had warned of: `dockerd --validate` does not look for the seccomp
\* profile (seccomp.py 89-96).
DiesOnlyWarned ==
  ~alive /\ phase = "advised" /\ verdict = "ok" => Verdict("DAEMON-008", plan.before, host) = "WARN"

\* What a run fixed passes its rule afterwards, and the same run again would
\* find nothing to do (build_plan, plan_fix).  A fix that is listed and then
\* dropped, because has_changes sees no change, is only ever that of a 0 or 1.
FixesResolve ==
  /\ phase = "advised" =>
       /\ \A r \in Fixed : Verdict(r, file, host) = "PASS"
       /\ Fixes(file, host, plan.selected) = {}
  /\ \A s \in Selections : ~HasChanges(file, Fixes(file, host, s)) =>
       \A r \in Fixes(file, host, s) : r \in BooleanIds /\ file[BooleanRule(r).key] = "number"

\* A run changes the settings of the rules it lists and nothing else, of the
\* logging settings only what the user had left open (log_limit.py 119-126),
\* and icc, which cuts containers off from each other, only if DAEMON-001 was
\* named (build_plan 213-221).
OnlyPlanned ==
  [][edits' = edits => \A k \in Keys : file'[k] # file[k] =>
       /\ \E r \in Fixed : k \in Patched(r)
       /\ k \in LogKeys => file[k] = "absent"
       /\ k = "icc" => "DAEMON-001" \in plan.selected]_vars
=============================================================================
