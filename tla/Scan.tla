--------------------------------- MODULE Scan ---------------------------------
(***************************************************************************)
(* `dockguard scan` from the options to the exit code (src/dockguard/      *)
(* cli.py, core/collector.py, core/engine.py, core/scoring.py): collect    *)
(* what the selected categories need, Docker's part of it by Collection    *)
(* while Docker goes on working, run the rules one by one, score, exit.    *)
(***************************************************************************)
EXTENDS Collection, Ruleset, FiniteSets

CONSTANT Commands  \* the options, files and defects a scan may start with

FlatWeight(s) == [CRITICAL |-> 40, HIGH |-> 10, MEDIUM |-> 10, LOW |-> 3, INFO |-> 0][s]
Weight(s) == [CRITICAL |-> 40, HIGH |-> 20, MEDIUM |-> 10, LOW |-> 3, INFO |-> 0][s]
\* daemon.json: missing, not usable, not even text, or with what it says of three settings.
Daemons == [state : {"absent", "unusable", "binary", "ok"}, nnp : BOOLEAN, icc : BOOLEAN, userns : BOOLEAN]
Services == [nnp : {"on", "off", "unset"}, open : BOOLEAN]
Projects == [error : BOOLEAN, services : SUBSET Services]

NoDaemon == [state |-> "absent", nnp |-> FALSE, icc |-> TRUE, userns |-> FALSE]

ASSUME ScanAssumption ==
  \A k \in Commands :
    /\ k.category \subseteq Categories  \* --category, more than once or not at all
    /\ k.named \subseteq {"compose", "deps", "snapshot"}  \* what --compose, --deps, --docker-snapshot name
    /\ k.missing \in BOOLEAN  \* a file or folder that was named does not exist
    /\ k.ruleset \in RulesetFiles \cup {NoRuleset}  \* --ruleset, and the places to look without it
    /\ k.rulesets \in Seq(RulesetFiles \cup {NoRuleset})
    /\ k.daemons \in Seq(Daemons)  \* likewise daemon.json: the one named, or the places to look
    /\ \A i \in DOMAIN k.daemons : LET d == k.daemons[i] IN d.state # "ok" => ~d.nnp /\ d.icc /\ ~d.userns
    /\ k.compose \in Seq(Projects)
    /\ k.deps \in {"none", "ok", "wrong", "fatal"}
    /\ k.failOn \in {"none"} \cup (Severities \ {"INFO"})
    /\ k.buggy \subseteq Rules

\* What the options select: all unless some are named, and what a file was named for.
Selected(k) ==
  (IF k.category = {} THEN Categories ELSE k.category)
    \cup (IF "compose" \in k.named THEN {"compose"} ELSE {})
    \cup (IF k.named \cap {"deps", "snapshot"} # {} THEN {"network"} ELSE {})

RulesetOf(k) == IF k.ruleset # NoRuleset THEN k.ruleset ELSE FirstThere(k.rulesets, NoRuleset)

\* What a scan goes by.
SetupOf(k) ==
  LET file == RulesetOf(k)
      verdict == Verdict(file)
  IN [command |-> k, categories |-> Selected(k), failOn |-> k.failOn, buggy |-> k.buggy,
      inputs |-> IF k.missing THEN "missing" ELSE verdict,
      disabled |-> IF verdict = "ok" THEN file.disabled ELSE {},
      severity |-> IF verdict = "ok" THEN Overrides(file) ELSE <<>>,
      daemon |-> FirstThere(k.daemons, NoDaemon), compose |-> k.compose, deps |-> k.deps]
Setups == {SetupOf(k) : k \in Commands}

VARIABLES
  setup,     \* what the options and the files amount to, and the rules with a defect
  stage,     \* how far the scan is
  read,      \* which parts of the context have been collected
  said,      \* context.notices and context.errors
  left,      \* the rules still to run
  findings, raised,  \* ScanResult.findings and .errors
  score, code        \* what is reported, and the exit code

scan == <<setup, stage, read, said, left, findings, raised, score, code>>
vars == <<collection, scan>>

OwnTarget == 0  \* the daemon.json or the host; else the number of a compose project
Statuses == {"PASS", "WARN", "FAIL", "SKIP"}
Findings == [rule : Rules, target : Nat, status : Statuses, severity : Severities]

Notes == {"noDaemonFile", "noCompose", "docker", "compose", "deps"} \X Nat

TypeOK ==
  /\ CollectTypeOK
  /\ setup \in Setups
  /\ stage \in {"start", "daemon", "compose", "docker", "rules", "ended"}
  /\ read \subseteq {"daemon", "compose", "docker"} /\ said \subseteq Notes
  /\ left \subseteq Rules /\ findings \subseteq Findings /\ raised \subseteq Rules
  /\ score \in 0..100 /\ code \in {"none", "0", "1", "2", "crash", "pipe"}
-----------------------------------------------------------------------------
(* The rules' checks.  known says which parts of the context are there.    *)
Parsed == {i \in DOMAIN setup.compose : ~setup.compose[i].error}
Usable(known) == "daemon" \in known /\ setup.daemon.state # "unusable"

On(target, status) == [target |-> target, status |-> status]
FailIf(b) == IF b THEN "FAIL" ELSE "PASS"
NoFinding == {}
Skipped == {On(OwnTarget, "SKIP")}

DaemonCheck(value, known) == IF Usable(known) THEN {On(OwnTarget, FailIf(~value))} ELSE Skipped

UsernsCheck(known) ==
  IF "docker" \in known /\ answered /\ gotns THEN {On(OwnTarget, "PASS")}
  ELSE DaemonCheck(setup.daemon.userns, known)

\* One finding for each project that could be read: FAIL if a service has an issue.
HasIssue(s, known) == s.nnp = "off" \/ (s.nnp = "unset" /\ ~(Usable(known) /\ setup.daemon.nnp))
ComposeCheck(known) ==
  IF "compose" \notin known THEN {}
  ELSE {On(i, FailIf(\E s \in setup.compose[i].services : HasIssue(s, known))) : i \in Parsed}

RunningBoxes == {c \in DOMAIN got : got[c].state = "running"}
Orphans == {c \in RunningBoxes : Host \notin got[c].nets /\ got[c].nets \subseteq {Bridge}}
OnBridge == {c \in RunningBoxes : Bridge \in got[c].nets}
IccDisabled(known) ==
  \/ Bridge \in DOMAIN gotnet /\ gotnet[Bridge] = "closed"
  \/ (Usable(known) /\ ~setup.daemon.icc)
BridgeStatus(known) ==
  IF \A c, d \in OnBridge : c = d THEN "PASS" ELSE IF IccDisabled(known) THEN "WARN" ELSE "FAIL"

NetworkCheck(r, known) ==
  CASE "docker" \notin known -> {}
    [] "docker" \in known /\ answered ->
         {On(OwnTarget,
             CASE r = "NET-002" -> FailIf(Orphans # {})
               [] r = "NET-003" -> BridgeStatus(known)
               [] r = "NET-004" -> FailIf(\E c \in RunningBoxes : got[c].open))}
    [] "docker" \in known /\ ~answered ->
         IF r = "NET-004" /\ "compose" \in known /\ Parsed # {}
         THEN {On(i, FailIf(\E s \in setup.compose[i].services : s.open)) : i \in Parsed}
         ELSE Skipped

Check(r, known) ==
  CASE r = "COMPOSE-003" -> ComposeCheck(known)
    [] r = "DAEMON-002" -> DaemonCheck(setup.daemon.nnp, known)
    [] r = "DAEMON-006" -> UsernsCheck(known)
    [] CategoryOf(r) = "network" -> NetworkCheck(r, known)
-----------------------------------------------------------------------------
(* The scan.                                                               *)
Enabled == {r \in Rules : CategoryOf(r) \in setup.categories /\ r \notin setup.disabled}
EndWith(c) == stage' = "ended" /\ code' = c

Init ==
  /\ CollectInit
  /\ setup \in Setups
  /\ "snapshot" \in setup.command.named <=> client["file"] # "missing"
  /\ stage = "start" /\ read = {} /\ said = {} /\ left = {}
  /\ findings = {} /\ raised = {} /\ score = 100 /\ code = "none"

\* A file that was named and is missing, or a ruleset that is refused; no rule to run; else go on.
Begin ==
  /\ stage = "start"
  /\ left' = Enabled
  /\ CASE setup.inputs \in {"missing", "error"} -> EndWith("2")
       [] setup.inputs = "crash" -> EndWith("crash")
       [] setup.inputs = "ok" /\ Enabled = {} -> EndWith("0")
       [] setup.inputs = "ok" /\ Enabled # {} -> stage' = "daemon" /\ code' = code
  /\ UNCHANGED <<collection, setup, read, said, findings, raised, score>>

\* daemon.json is read whatever is selected; one that is no text ends the scan with a traceback.
Announced(note, cond) == IF cond THEN {note} ELSE {}
DaemonIfSelected ==
  /\ stage = "daemon" /\ stage' = "compose"
  /\ read' = read \cup (IF "daemon" \in setup.categories THEN {"daemon"} ELSE {})
  /\ UNCHANGED <<collection, setup, said, left, findings, raised, score, code>>
CollectDaemon ==
  /\ stage = "daemon"
  /\ IF setup.daemon.state = "binary"
     THEN EndWith("crash") /\ UNCHANGED <<read, said>>
     ELSE /\ stage' = "compose" /\ code' = code /\ read' = read \cup {"daemon"}
          /\ said' = said \cup Announced(<<"noDaemonFile", 0>>,
                                         setup.daemon.state = "absent" /\ "daemon" \in setup.categories)
  /\ UNCHANGED <<collection, setup, left, findings, raised, score>>

\* Network rules look at compose too, but what is wrong with it is said only if compose was asked for.
ComposeNotes ==
  IF "compose" \notin setup.categories THEN {}
  ELSE Announced(<<"noCompose", 0>>, setup.compose = <<>>)
         \cup {<<"compose", i>> : i \in DOMAIN setup.compose \ Parsed}
CollectCompose ==
  /\ stage = "compose"
  /\ stage' = IF "network" \in setup.categories THEN "docker" ELSE "rules"
  /\ IF setup.categories \cap {"compose", "network"} = {} THEN UNCHANGED <<read, said>>
     ELSE read' = read \cup {"compose"} /\ said' = said \cup ComposeNotes
  /\ UNCHANGED <<collection, setup, left, findings, raised, score, code>>

CollectDocker == stage = "docker" /\ CollectNext /\ UNCHANGED scan

\* With what Docker, or the snapshot, gave; then the dependency file is read.
AwaitDocker ==
  /\ stage = "docker" /\ pc = "done" /\ answered
  /\ stage' = "rules" /\ read' = read \cup {"docker"}
  /\ UNCHANGED <<collection, setup, said, left, findings, raised, score, code>>
DockerCollected ==
  /\ stage = "docker" /\ pc \in {"done", "crashed"}
  /\ IF pc = "crashed" \/ setup.deps = "fatal"
     THEN EndWith("crash") /\ UNCHANGED <<read, said>>
     ELSE /\ stage' = "rules" /\ code' = code /\ read' = read \cup {"docker"}
          /\ said' = said \cup Announced(<<"docker", 0>>, ~answered) \cup Announced(<<"deps", 0>>, setup.deps = "wrong")
  /\ UNCHANGED <<collection, setup, left, findings, raised, score>>

\* A rule that raises is noted; of one that does not, the findings get the ruleset's severity.
SeverityOf(r) == IF r \in DOMAIN setup.severity THEN setup.severity[r] ELSE Native(r)
RunRule(r) ==
  /\ stage = "rules" /\ r \in left /\ (\A q \in left : Position(r) <= Position(q)) /\ left' = left \ {r}
  /\ IF r \in setup.buggy THEN raised' = raised \cup {r} /\ findings' = findings
     ELSE /\ raised' = raised
          /\ findings' = findings \cup {[rule |-> r, target |-> f.target, status |-> f.status,
                                         severity |-> SeverityOf(r)] : f \in Check(r, read)}
  /\ UNCHANGED <<collection, setup, stage, read, said, score, code>>

Problems == {f \in findings : f.status \in {"FAIL", "WARN"}}
Failed == {f \in findings : f.status = "FAIL"}
Count(s) == Cardinality({f \in Failed : f.severity = s})
Deducted ==
  Weight("CRITICAL") * Count("CRITICAL") + Weight("HIGH") * Count("HIGH") + Weight("MEDIUM") * Count("MEDIUM")
    + Weight("LOW") * Count("LOW") + Weight("INFO") * Count("INFO")
BareScore == 100 - Deducted
Score == IF Deducted > 100 THEN 0 ELSE 100 - Deducted
Grade == IF score >= 90 THEN "A" ELSE IF score >= 75 THEN "B" ELSE IF score >= 60 THEN "C"
         ELSE IF score >= 40 THEN "D" ELSE "F"

StrictlyBlocking == {f \in Failed : Rank(f.severity) < Rank(setup.failOn)}
Blocking == {f \in Failed : Rank(f.severity) <= Rank(setup.failOn)}
Report ==
  /\ stage = "rules" /\ left = {} /\ score' = Score
  /\ EndWith(IF setup.failOn # "none" /\ Blocking # {} THEN "1" ELSE "0")
  /\ UNCHANGED <<collection, setup, read, said, left, findings, raised>>

\* The report cannot be written: the reader of the pipe is gone, or the file or the disk is no good.
ReportFails ==
  /\ stage = "rules" /\ left = {} /\ score' = Score
  /\ \E c \in {"pipe", "crash"} : EndWith(c)
  /\ UNCHANGED <<collection, setup, read, said, left, findings, raised>>

\* What the terminal says at the end of a report: nothing was found, well done.
NoError == raised = {} /\ \A n \in said : n[1] \notin {"docker", "compose", "deps"}
Praised == Problems = {} /\ NoError /\ findings # {}

Next ==
  \/ Begin \/ CollectDaemon \/ CollectCompose \/ CollectDocker \/ DockerCollected \/ Report \/ ReportFails
  \/ \E r \in Rules : RunRule(r)

Spec == Init /\ [][Next]_vars

\* The program runs on, and each call returns: Docker's own changes are not owed.
Advance ==
  \/ Begin \/ CollectDaemon \/ CollectCompose \/ DockerCollected \/ Report \/ ReportFails
  \/ \E r \in Rules : RunRule(r)
  \/ stage = "docker" /\ Read /\ UNCHANGED scan
FairSpec == Spec /\ WF_vars(Advance)
-----------------------------------------------------------------------------
Ended == stage = "ended" /\ code \in {"0", "1"} /\ setup.inputs = "ok"
All == {"daemon", "compose", "docker"}

(* Nothing is left out in silence (docs/decisions.md:219): of every rule   *)
(* that was asked for there is a finding or an error, of every compose     *)
(* file a finding of each compose rule or the reason why not, and what     *)
(* could not be collected is named: an unavailable Docker, an unusable     *)
(* snapshot, and a dependency file that is not used.                       *)
Accounted ==
  Ended =>
    /\ \A r \in Enabled : \/ r \in raised
                          \/ \E f \in findings : f.rule = r
                          \/ CategoryOf(r) = "compose" /\ \E n \in said : n[1] \in {"noCompose", "compose"}
    /\ "compose" \in setup.categories /\ Enabled # {} =>
         \A i \in DOMAIN setup.compose :
           \/ <<"compose", i>> \in said
           \/ \A r \in Enabled : CategoryOf(r) # "compose" \/ r \in raised
                                 \/ \E f \in findings : f.rule = r /\ f.target = i
    /\ "network" \in setup.categories /\ Enabled # {} =>
         /\ ~answered => <<"docker", 0>> \in said
         /\ setup.deps = "wrong" => <<"deps", 0>> \in said

(* What a rule finds depends neither on the categories that were selected  *)
(* with its own (each collects, quietly, what its rules read elsewhere)    *)
(* nor on other rules that raise: it is what it would find alone with      *)
(* everything collected.  DAEMON-006 is another matter, see below.         *)
SelectionNeutral ==
  Ended =>
    \A r \in Enabled \ {"DAEMON-006"} :
      {On(f.target, f.status) : f \in {g \in findings : g.rule = r}} =
        IF r \in setup.buggy THEN {} ELSE Check(r, All)

\* The ruleset a scan has to go by: the one that is named, or the first that is found.
InForce(k) ==
  IF k.ruleset # NoRuleset THEN {k.ruleset}
  ELSE {k.rulesets[i] : i \in {i \in DOMAIN k.rulesets : /\ k.rulesets[i] # NoRuleset
                                                      /\ \A j \in 1..(i - 1) : k.rulesets[j] = NoRuleset}}

(* A scan that reports has done all its ruleset says (cli.py:214: no score *)
(* is to come out while a rule that was to be off is on): every name in it *)
(* is a rule's, what it turns off has neither found anything nor raised,   *)
(* and what was found has the severity that it gives last.                 *)
RulesetObeyed ==
  Ended =>
    \A file \in InForce(setup.command) :
      /\ file.text = "mapping"
      /\ \A n \in file.disabled : n \in Rules \ raised /\ \A f \in findings : f.rule # n
      /\ \A i \in DOMAIN file.severity :
           LET n == file.severity[i][1]
               v == file.severity[i][2]
           IN /\ n \in Rules /\ v \in Severities
              /\ (\A j \in DOMAIN file.severity : file.severity[j][1] = n => j <= i) =>
                   \A f \in findings : f.rule = n => f.severity = v

(* The score says how bad it is: 100 only if nothing failed that counts,   *)
(* A only without a HIGH or CRITICAL failure, and no better than C with a  *)
(* CRITICAL one, whatever the ruleset made of the severities.              *)
ScoreTells ==
  Ended =>
    /\ score = 100 <=> \A f \in Failed : f.severity = "INFO"
    /\ Grade = "A" => \A f \in Failed : f.severity \notin {"HIGH", "CRITICAL"}
    /\ Grade \in {"A", "B"} => \A f \in Failed : f.severity # "CRITICAL"
    /\ setup.failOn = "LOW" => (code = "0" <=> score = 100)

\* What --fail-on is about, as the host was all the while, or at some moment, it was read.
Counts(r) ==
  /\ setup.failOn # "none" /\ r \in Enabled \ setup.buggy /\ Rank(SeverityOf(r)) <= Rank(setup.failOn)
Always(c, P(_)) == \A b \in was[c] : P(b)
Once(c, P(_)) == \E b \in was[c] : P(b)
Up(b) == b.state = "running"
Orphan(b) == Up(b) /\ Host \notin b.nets /\ b.nets \subseteq {Bridge}
Bridged(b) == Up(b) /\ Bridge \in b.nets
Exposed(b) == Up(b) /\ b.open
IccOff == setup.daemon.state # "unusable" /\ ~setup.daemon.icc

Insecure(r) ==
  CASE r = "DAEMON-002" -> setup.daemon.state # "unusable" /\ ~setup.daemon.nnp
    [] r = "DAEMON-006" -> setup.daemon.state # "unusable" /\ ~setup.daemon.userns
    [] r = "COMPOSE-003" ->
         \E i \in Parsed : \E s \in setup.compose[i].services :
            s.nnp = "off" \/ (s.nnp = "unset" /\ ~(setup.daemon.state # "unusable" /\ setup.daemon.nnp))
    [] CategoryOf(r) = "network" -> FALSE
Certain(r) ==
  CASE r \in {"DAEMON-002", "COMPOSE-003"} -> Insecure(r)
    [] r = "DAEMON-006" -> Insecure(r) /\ ~userns
    [] r = "NET-002" -> answered /\ \E c \in Containers : Always(c, Orphan)
    [] r = "NET-003" -> /\ answered /\ ~IccOff /\ "closed" \notin netwas[Bridge]
                        /\ \E c, d \in Containers : c # d /\ Always(c, Bridged) /\ Always(d, Bridged)
    [] r = "NET-004" -> IF answered THEN \E c \in Containers : Always(c, Exposed)
                        ELSE \E i \in Parsed : \E s \in setup.compose[i].services : s.open
Possible(r) ==
  CASE CategoryOf(r) # "network" -> Insecure(r)
    [] r = "NET-002" -> answered /\ \E c \in Containers : Once(c, Orphan)
    [] r = "NET-003" -> /\ answered /\ ~IccOff /\ netwas[Bridge] # {"closed"}
                        /\ \E c, d \in Containers : c # d /\ Once(c, Bridged) /\ Once(d, Bridged)
    [] r = "NET-004" -> IF answered THEN \E c \in Containers : Once(c, Exposed)
                        ELSE \E i \in Parsed : \E s \in setup.compose[i].services : s.open

(* A green pipeline means what it says: with exit code 0 there was nothing *)
(* at or above the threshold that held all the while Docker was read, or   *)
(* that the snapshot says.  Nor is a host praised that fails a rule.       *)
GreenIsTrue ==
  Ended => /\ code = "0" => \A r \in Rules : Counts(r) => ~Certain(r)
           /\ Praised => \A r \in Enabled : ~Certain(r)

(* A red one too: with exit code 1 something at or above the threshold     *)
(* did hold, if only at some moment of the reading.                        *)
RedIsTrue == Ended /\ code = "1" => \E r \in Rules : Counts(r) /\ Possible(r)

(* Every scan comes to an end, also when Docker goes away under it.        *)
Ends == <>(stage = "ended")

(* README.md:1195 says that what dockerd is run with is taken into account *)
(* and collector.py that other categories' data are collected if needed: a *)
(* host with user namespaces does not fail DAEMON-006, whatever categories *)
(* are selected, unless Docker was asked and did not say.                  *)
UsernsNeutral ==
  Ended /\ userns /\ ("docker" \in read => answered /\ gotns) =>
    \A f \in Failed : f.rule # "DAEMON-006"
=============================================================================
