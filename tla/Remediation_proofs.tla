------------------------- MODULE Remediation_proofs -------------------------
(***************************************************************************)
(* Remediation for every daemon.json, host, selection and number of runs.  *)
(* The invariant Inv says what a plan and the file have to do with each    *)
(* other in each phase; with a careful user it also bounds what the steps  *)
(* still ahead can do to the containers.                                   *)
(***************************************************************************)
EXTENDS Remediation, DaemonRules_proofs

LEMMA NoSettingsIsConfig == IsConfig(NoSettings)
  <1>1. \A k \in Keys : "absent" \in Kinds(k)  BY DEF Kinds
  <1>2. {"log-opts", "max-size", "max-file"} \subseteq Keys  BY DEF Keys, LogKeys
  <1> QED BY <1>1, <1>2 DEF IsConfig, NoSettings

\* An advised plan is in the file.
Written == phase = "advised" => file = Planned

\* A careful user's file does not change between the plan and the write.
Fresh == Careful /\ phase = "prompt" => file = plan.before

Inv == TypeOK /\ Written /\ Fresh

LEMMA PlannedIsConfig == ASSUME TypeOK PROVE IsConfig(Planned)
  BY AutoFixes, AfterIsConfig DEF TypeOK, Planned, Fixed

StepRecords == [do : {"reload", "restart", "recreate"}, says : {"kept", "warned", "nothing"}]

LEMMA StepIsSteps ==
  ASSUME NEW c \in {"reload", "restart", "recreate"}, NEW a \in {"kept", "warned", "nothing"}
  PROVE  Step(c, a) \in Seq(StepRecords)
  <1>1. [do |-> c, says |-> a] \in StepRecords  BY DEF StepRecords
  <1> QED BY <1>1 DEF Step

LEMMA AdviceIsSteps == ForDaemon \o ForContainers \in Seq(StepRecords)
  <1>1. ForDaemon \in Seq(StepRecords)
    BY StepIsSteps DEF ForDaemon
  <1>2. ForContainers \in Seq(StepRecords)
    BY StepIsSteps DEF ForContainers
  <1> QED BY <1>1, <1>2

LEMMA InvInit == Init => Inv
  BY ConstantsAssumption, NoSettingsIsConfig DEF Init, Inv, TypeOK, Outages, Written, Fresh

\* dockerd loads configs only.
LEMMA RestartType == ASSUME TypeOK, Restart PROVE IsConfig(running)' /\ IsConfig(created)' /\ (alive \in BOOLEAN)'
  BY DEF TypeOK, Restart, IsConfig

LEMMA ReloadType == ASSUME TypeOK, Reload PROVE IsConfig(running)' /\ IsConfig(created)' /\ (alive \in BOOLEAN)'
  <1>1. CASE ~Parses(file)  BY <1>1 DEF TypeOK, Reload, IsConfig
  <1>2. CASE Parses(file)
    <2>1. \A k \in Reloaded : k # "log-opts" /\ k # "max-size" /\ k # "max-file"  BY DEF Reloaded
    <2>2. running' = [k \in Keys |-> IF k \in Reloaded THEN file[k] ELSE running[k]]  BY <1>2 DEF Reload
    <2>3. {"log-opts", "max-size", "max-file"} \subseteq Keys  BY DEF Keys, LogKeys
    <2>4. \A k \in Keys : running'[k] \in Kinds(k)  BY <2>2 DEF TypeOK, IsConfig
    <2>5. running'["log-opts"] = running["log-opts"] /\ running'["max-size"] = running["max-size"]
          /\ running'["max-file"] = running["max-file"]
      BY <2>1, <2>2, <2>3
    <2>6. IsConfig(running)'  BY <2>2, <2>4, <2>5 DEF TypeOK, IsConfig
    <2> QED BY <2>6 DEF TypeOK, Reload, IsConfig
  <1> QED BY <1>1, <1>2

LEMMA InvNext == Inv /\ [Next]_vars => Inv'
  <1> SUFFICES ASSUME Inv, [Next]_vars PROVE Inv'  OBVIOUS
  <1> USE DEF Inv
  <1>1. ASSUME NEW s \in Selections, Run(s) PROVE Inv'
    BY <1>1, ConstantsAssumption DEF Run, TypeOK, Outages, Written, Fresh, dockerd, IsConfig
  <1>2. CASE Cancel
    BY <1>2 DEF Cancel, TypeOK, Written, Fresh, dockerd, IsConfig
  <1>3. CASE Apply
    <2>1. steps' \in Seq(StepRecords)  BY <1>3, AdviceIsSteps DEF Apply
    <2>2. host' \in Hosts  BY <1>3 DEF Apply, TypeOK, Hosts
    <2>3. IsConfig(file)'  BY <1>3, PlannedIsConfig DEF Apply, IsConfig
    <2>4. TypeOK'  BY <1>3, <2>1, <2>2, <2>3 DEF Apply, TypeOK, StepRecords, dockerd, IsConfig
    <2>5. Planned' = Planned  BY <1>3, FixesHostFree DEF Apply, Planned, Fixed
    <2>6. Written' /\ Fresh'  BY <1>3, <2>5 DEF Apply, Written, Fresh
    <2> QED BY <2>4, <2>6
  <1>4. ASSUME NEW c, Follow(c), IsConfig(running)', IsConfig(created)', (alive \in BOOLEAN)',
               outage' \in Outages PROVE Inv'
    <2>1. steps' \in Seq(StepRecords)  BY <1>4 DEF Follow, TypeOK, StepRecords
    <2> QED BY <1>4, <2>1 DEF Follow, TypeOK, StepRecords, Written, Fresh, Planned, Fixed, IsConfig
  <1>5. CASE FollowReload
    BY <1>5, <1>4, ReloadType DEF FollowReload, TypeOK
  <1>6. CASE FollowRestart
    <2>1. Head(steps).says \in {"kept", "warned", "nothing"}
      <3>1. steps \in Seq(StepRecords) /\ steps # <<>>  BY <1>6 DEF FollowRestart, Follow, TypeOK, StepRecords
      <3>2. Head(steps) \in StepRecords  BY <3>1
      <3> QED BY <3>2 DEF StepRecords
    <2>2. outage' \in Outages  BY <1>6, <2>1 DEF FollowRestart, TypeOK, Outages
    <2> QED BY <1>6, <2>2, <1>4, RestartType DEF FollowRestart
  <1>7. CASE FollowRecreate
    <2>1. IsConfig(running)' /\ IsConfig(created)' /\ (alive \in BOOLEAN)'
      BY <1>7 DEF FollowRecreate, Recreate, TypeOK, IsConfig
    <2> QED BY <1>7, <2>1, <1>4 DEF FollowRecreate, TypeOK
  <1>8. CASE Edit
    <2>1. IsConfig(file)'  BY <1>8, ConstantsAssumption DEF Edit, IsConfig
    <2>2. edits' \in 0 .. MaxEdits  BY <1>8, ConstantsAssumption DEF Edit, TypeOK
    <2> QED BY <1>8, <2>1, <2>2 DEF Edit, TypeOK, Written, Fresh, dockerd, IsConfig
  <1>9. CASE AdminRestart
    BY <1>9, RestartType DEF AdminRestart, TypeOK, Written, Fresh, IsConfig
  <1>10. CASE UNCHANGED vars
    BY <1>10 DEF vars, TypeOK, Written, Fresh, Planned, Fixed, IsConfig
  <1> QED BY <1>1, <1>2, <1>3, <1>5, <1>6, <1>7, <1>8, <1>9, <1>10 DEF Next

\* The type invariant of Remediation: whatever is fixed, edited and reloaded,
\* the file and dockerd hold configs.
THEOREM TypeCorrect == Spec => []TypeOK
  <1>1. Spec => []Inv  BY InvInit, InvNext, PTL DEF Spec
  <1> QED BY <1>1, PTL DEF Inv

\* What a run fixed passes its rule, and the same run again finds nothing to
\* do, for every daemon.json and every selection; a fix that is listed and not
\* made is only that of a 0 or 1 (build_plan, plan_fix, has_changes).
THEOREM FixesResolveHolds == Spec => []FixesResolve
  <1>1. Inv => FixesResolve
    <2>0. Inv => \A s \in Selections : ~HasChanges(file, Fixes(file, host, s)) =>
            \A r \in Fixes(file, host, s) : r \in BooleanIds /\ file[BooleanRule(r).key] = "number"
      BY DropsOnlyNumbers DEF Inv, TypeOK
    <2> SUFFICES ASSUME Inv, phase = "advised" PROVE
          (\A r \in Fixed : Verdict(r, file, host) = "PASS") /\ Fixes(file, host, plan.selected) = {}
      BY <2>0 DEF FixesResolve
    <2>1. file = After(plan.before, Fixes(plan.before, host, plan.selected))
      BY DEF Inv, Written, Planned, Fixed
    <2> QED BY <2>1, AfterResolves, AfterQuiet DEF Inv, TypeOK, Fixed
  <1>2. Spec => []Inv  BY InvInit, InvNext, PTL DEF Spec
  <1> QED BY <1>1, <1>2, PTL
-----------------------------------------------------------------------------
(* With a careful user the file a run writes is the one it planned on.     *)

LEMMA WritesOnlyPlanned ==
  ASSUME NEW c, IsConfig(c), NEW h, NEW s, NEW k \in Keys, After(c, Fixes(c, h, s))[k] # c[k]
  PROVE  /\ \E r \in Fixes(c, h, s) : k \in Patched(r)
         /\ k \in LogKeys => c[k] = "absent"
         /\ k = "icc" => "DAEMON-001" \in s
  <1> DEFINE F == Fixes(c, h, s)
             a == After(c, F)
  <1>1. F \in SUBSET AutoIds  BY AutoFixes
  <1> HIDE DEF F, a
  <1>2. a = After(c, F) /\ a[k] # c[k]  BY DEF a, F
  <1>3. \E r \in F : k \in Patched(r)  BY <1>2 DEF After
  <1>4. ASSUME k \in LogKeys PROVE c[k] = "absent"
    <2>1. "DAEMON-005" \in F /\ NewValue(c, k) # c[k]  BY <1>1, <1>2, <1>4, AfterByKey
    <2>2. LogVerdict(c) = "FAIL"  BY <2>1, AutoVerdicts DEF F, Fixes, Fixable
    <2>3. c["log-opts"] # "bad" /\ c["max-size"] = "absent"  BY <2>2 DEF LogVerdict, Status
    <2>4. c["log-opts"] \in {"absent", "bad", "object"}
      <3>1. Kinds("log-opts") = {"absent", "bad", "object"}  BY DEF Kinds, BooleanKeys
      <3>2. "log-opts" \in Keys  BY DEF Keys, LogKeys
      <3> QED BY <3>1, <3>2 DEF IsConfig
    <2>5. k \in {"log-driver", "log-opts", "max-size", "max-file"}  BY <1>4 DEF LogKeys
    <2> QED BY <2>1, <2>3, <2>4, <2>5, FixedValues
  <1>5. ASSUME k = "icc" PROVE "DAEMON-001" \in s
    <2>1. "DAEMON-001" \in F  BY <1>1, <1>2, <1>5, AfterByKey
    <2>2. Risk("DAEMON-001") = "risky"  BY DEF Risk, BooleanIds, BooleanRule, Icc
    <2> QED BY <2>1, <2>2 DEF F, Fixes
  <1> QED BY <1>3, <1>4, <1>5 DEF F

LEMMA FileStep ==
  ASSUME Careful, Inv, [Next]_vars, edits' = edits, NEW k \in Keys, file'[k] # file[k]
  PROVE  /\ \E r \in Fixed : k \in Patched(r)
         /\ k \in LogKeys => file[k] = "absent"
         /\ k = "icc" => "DAEMON-001" \in plan.selected
  <1>1. Apply
    <2>1. file' # file  OBVIOUS
    <2>2. ~Edit  BY ConstantsAssumption DEF Edit, Inv, TypeOK
    <2> QED BY <2>1, <2>2 DEF Next, vars, Run, Cancel, FollowReload, FollowRestart, FollowRecreate,
                              Follow, AdminRestart
  <1>2. file = plan.before /\ IsConfig(file)  BY <1>1 DEF Apply, Inv, Fresh, TypeOK
  <1>3. file' = After(file, Fixes(file, host, plan.selected))  BY <1>1, <1>2 DEF Apply, Planned, Fixed
  <1> QED BY <1>2, <1>3, WritesOnlyPlanned DEF Fixed

\* A run changes only settings of the rules it lists, of the logging settings
\* only those the user had left open (log_limit.py 119-126), and icc only if
\* DAEMON-001 was named (build_plan 213-221).
THEOREM OnlyPlannedHolds == ASSUME Careful PROVE Spec => OnlyPlanned
  <1>1. Inv /\ [Next]_vars => [edits' = edits => \A k \in Keys : file'[k] # file[k] =>
            /\ \E r \in Fixed : k \in Patched(r)
            /\ k \in LogKeys => file[k] = "absent"
            /\ k = "icc" => "DAEMON-001" \in plan.selected]_vars
    BY FileStep
  <1>2. Spec => []Inv  BY InvInit, InvNext, PTL DEF Spec
  <1> QED BY <1>1, <1>2, PTL DEF Spec, OnlyPlanned
-----------------------------------------------------------------------------
(* The steps still ahead, when the user is careful: a restart announced as *)
(* harmless finds live-restore on in the file, and on in dockerd or turned *)
(* on by a reload that comes first.                                        *)
IsKept(s) == s.do = "restart" /\ s.says = "kept"

Ahead ==
  Parses(Planned) =>
    \A i \in 1 .. Len(steps) : IsKept(steps[i]) =>
      On(Planned) /\ (On(running) \/ \E j \in 1 .. (i - 1) : steps[j].do = "reload")

\* What a restart step says of the containers: nothing on Docker Desktop only,
\* and a warning only where the prompt gave one.
Announced ==
  \A i \in 1 .. Len(steps) : steps[i].do = "restart" =>
    /\ steps[i].says = "warned" => Promise = "warned"
    /\ steps[i].says = "nothing" => ~linux

Harmless ==
  /\ phase # "advised" => steps = <<>>
  /\ phase = "prompt" => outage = "none" /\ (On(plan.before) => On(running))
  /\ KeepsContainers
  /\ Ahead
  /\ Announced

LEMMA HarmlessInit == Init => Harmless
  BY DEF Init, Harmless, KeepsContainers, Ahead, Announced

LEMMA AdviceIsAnnounced ==
  ASSUME NEW s, s = ForDaemon \o ForContainers, NEW i \in 1 .. Len(s), s[i].do = "restart"
  PROVE  /\ s[i].says = "warned" => Promise = "warned"
         /\ s[i].says = "nothing" => ~linux
  <1>1. ForContainers = <<>> \/ ForContainers = <<[do |-> "recreate", says |-> "nothing"]>>
    BY DEF ForContainers, Step
  <1>2. PlanMethod(Fixed) \in {"restart", "reload"}  BY DEF PlanMethod
  <1>3. CASE \E d \in {"reload", "restart"}, a \in {"nothing", "kept", "warned"} :
               ForDaemon = Step(d, a) /\ (a = "nothing" => ~linux) /\ (a = "warned" => Promise = "warned")
    BY <1>1, <1>3 DEF Step
  <1>4. CASE ForDaemon = Step("reload", "kept") \o Step("restart", "kept")
    BY <1>1, <1>4 DEF Step
  <1> QED BY <1>2, <1>3, <1>4 DEF ForDaemon, Promise

\* What next_steps prints.
LEMMA AdviceIsHarmless ==
  ASSUME On(plan.before) => On(running), NEW s, s = ForDaemon \o ForContainers,
         NEW i \in 1 .. Len(s), IsKept(s[i])
  PROVE  On(Planned) /\ (On(running) \/ \E j \in 1 .. (i - 1) : s[j].do = "reload")
  <1>1. ForContainers = <<>> \/ ForContainers = <<[do |-> "recreate", says |-> "nothing"]>>
    BY DEF ForContainers, Step
  <1>2. CASE On(Planned) /\ ~On(plan.before) /\ ForDaemon = Step("reload", "kept") \o Step("restart", "kept")
    <2>1. s[1].do = "reload" /\ i # 1  BY <1>1, <1>2 DEF Step, IsKept
    <2> QED BY <1>2, <2>1
  <1>3. CASE On(Planned) /\ On(plan.before)
    BY <1>3
  <1>4. CASE \E d \in {"reload", "restart"}, a \in {"nothing", "kept", "warned"} :
               ForDaemon = Step(d, a) /\ ~IsKept([do |-> d, says |-> a])
    BY <1>1, <1>4 DEF Step, IsKept
  <1>5. \/ On(Planned) /\ On(plan.before)
        \/ On(Planned) /\ ~On(plan.before) /\ ForDaemon = Step("reload", "kept") \o Step("restart", "kept")
        \/ ForDaemon = Step("restart", "nothing") \/ ForDaemon = Step("reload", "kept")
        \/ ForDaemon = Step("restart", "warned")
    BY DEF ForDaemon
  <1> QED BY <1>2, <1>3, <1>4, <1>5 DEF IsKept

LEMMA HarmlessNext == Careful /\ Inv /\ Harmless /\ [Next]_vars => Harmless'
  <1> SUFFICES ASSUME Careful, Inv, Harmless, [Next]_vars PROVE Harmless'  OBVIOUS
  <1>1. ASSUME NEW s \in Selections, Run(s) PROVE Harmless'
    BY <1>1 DEF Run, Harmless, KeepsContainers, Ahead, Announced, On, dockerd
  <1>2. CASE Cancel
    BY <1>2 DEF Cancel, Harmless, KeepsContainers, Ahead, Announced, Promise, Planned, Fixed
  <1>3. CASE Apply
    <2>1. Planned' = Planned  BY <1>3, FixesHostFree DEF Apply, Planned, Fixed
    <2>2. running' = running /\ outage' = "none" /\ steps' = ForDaemon \o ForContainers /\ phase' = "advised"
      BY <1>3 DEF Apply, dockerd, Harmless
    <2>3. Ahead'
      BY <1>3, <2>1, <2>2, AdviceIsHarmless DEF Ahead, Apply, Harmless, On
    <2>4. Promise' = Promise /\ linux' = linux
      BY <1>3, <2>1, FixesHostFree DEF Apply, Promise, Fixed, On
    <2>5. Announced'  BY <2>2, <2>4, AdviceIsAnnounced DEF Announced
    <2> QED BY <2>1, <2>2, <2>3, <2>5 DEF Harmless, KeepsContainers
  <1>4. ASSUME NEW c, Follow(c) PROVE
          /\ phase = "advised" /\ phase' = "advised" /\ file = Planned /\ Planned' = Planned /\ file' = file
          /\ Head(steps) = steps[1] /\ 1 \in 1 .. Len(steps) /\ steps[1].do = c
          /\ \A i \in 1 .. Len(steps') : steps'[i] = steps[i + 1] /\ i + 1 \in 1 .. Len(steps)
          /\ Announced' /\ Promise' = Promise /\ linux' = linux
    <2>1. /\ phase = "advised" /\ phase' = "advised" /\ file = Planned /\ Planned' = Planned /\ file' = file
          /\ Head(steps) = steps[1] /\ 1 \in 1 .. Len(steps) /\ steps[1].do = c
          /\ \A i \in 1 .. Len(steps') : steps'[i] = steps[i + 1] /\ i + 1 \in 1 .. Len(steps)
      BY <1>4 DEF Follow, Harmless, Inv, Written, TypeOK, Planned, Fixed
    <2>2. Promise' = Promise /\ linux' = linux  BY <1>4 DEF Follow, Promise, Planned, Fixed, On
    <2> QED BY <2>1, <2>2 DEF Announced, Harmless
  <1>5. CASE FollowReload
    <2>1. Follow("reload") /\ outage' = outage  BY <1>5 DEF FollowReload
    <2>2. ASSUME Parses(Planned), On(Planned) PROVE On(running')
      <3>1. "live-restore" \in Keys /\ "live-restore" \in Reloaded  BY DEF Keys, BooleanKeys, Reloaded
      <3> QED BY <2>1, <2>2, <3>1, <1>4, <1>5 DEF FollowReload, Reload, On
    <2>3. Ahead'  BY <2>1, <2>2, <1>4 DEF Ahead, Harmless, On
    <2> QED BY <2>1, <2>3, <1>4 DEF Harmless, KeepsContainers
  <1>6. CASE FollowRestart
    <2>1. Follow("restart")  BY <1>6 DEF FollowRestart
    <2>2. ASSUME Parses(Planned), IsKept(steps[1]) PROVE ~Interrupts
      <3>1. On(Planned) /\ On(running)  BY <2>1, <2>2, <1>4 DEF Harmless, Ahead
      <3> QED BY <2>1, <3>1, <1>4 DEF Interrupts
    <2>3. KeepsContainers'
      <3>0. steps \in Seq(StepRecords)  BY DEF Inv, TypeOK, StepRecords
      <3>1. steps[1] \in StepRecords  BY <3>0, <2>1, <1>4
      <3>2. CASE ~Interrupts
        BY <2>1, <3>2, <1>4, <1>6 DEF FollowRestart, KeepsContainers, Harmless
      <3>3. CASE Interrupts /\ steps[1].says = "kept"
        <4>1. ~Parses(Planned)  BY <2>1, <2>2, <3>3, <1>4 DEF IsKept
        <4> QED BY <2>1, <4>1, <1>4 DEF KeepsContainers
      <3>4. CASE Interrupts /\ steps[1].says = "warned"
        <4>1. Promise = "warned" /\ outage' = "warned"
          BY <2>1, <3>4, <1>4, <1>6 DEF Harmless, Announced, FollowRestart
        <4> QED BY <2>1, <4>1, <1>4 DEF KeepsContainers
      <3>5. CASE Interrupts /\ steps[1].says = "nothing"
        <4>1. ~linux /\ outage' = "unsaid"
          BY <2>1, <3>5, <1>4, <1>6 DEF Harmless, Announced, FollowRestart
        <4> QED BY <2>1, <4>1, <1>4 DEF KeepsContainers
      <3> QED BY <3>1, <3>2, <3>3, <3>4, <3>5 DEF StepRecords
    <2>4. running' = Planned \/ running' = running  BY <2>1, <1>4, <1>6 DEF FollowRestart, Restart
    <2>5. Ahead'
      <3> SUFFICES ASSUME Parses(Planned), NEW i \in 1 .. Len(steps'), IsKept(steps'[i])
                   PROVE  On(Planned) /\ (On(running') \/ \E j \in 1 .. (i - 1) : steps'[j].do = "reload")
        BY <2>1, <1>4 DEF Ahead, On
      <3>1. steps'[i] = steps[i + 1] /\ i + 1 \in 1 .. Len(steps)  BY <2>1, <1>4
      <3>2. On(Planned) /\ (On(running) \/ \E j \in 1 .. i : steps[j].do = "reload")
        BY <3>1 DEF Harmless, Ahead
      <3>3. CASE On(running)  BY <3>2, <3>3, <2>4
      <3>4. ASSUME NEW j \in 1 .. i, steps[j].do = "reload"
            PROVE  \E n \in 1 .. (i - 1) : steps'[n].do = "reload"
        <4>1. j # 1  BY <3>4, <2>1, <1>4
        <4>2. j - 1 \in 1 .. (i - 1) /\ j - 1 \in 1 .. Len(steps')  BY <4>1, <3>4
        <4>3. steps'[j - 1] = steps[j]  BY <4>2, <2>1, <1>4
        <4> QED BY <4>2, <4>3, <3>4
      <3> QED BY <3>2, <3>3, <3>4
    <2> QED BY <2>1, <2>3, <2>5, <1>4 DEF Harmless
  <1>7. CASE FollowRecreate
    <2>1. Follow("recreate") /\ outage' = outage /\ running' = running
      BY <1>7 DEF FollowRecreate, Recreate
    <2>2. Ahead'
      <3> SUFFICES ASSUME Parses(Planned), NEW i \in 1 .. Len(steps'), IsKept(steps'[i])
                   PROVE  On(Planned) /\ (On(running) \/ \E j \in 1 .. (i - 1) : steps'[j].do = "reload")
        BY <2>1, <1>4 DEF Ahead, On
      <3>1. steps'[i] = steps[i + 1] /\ i + 1 \in 1 .. Len(steps)  BY <2>1, <1>4
      <3>2. On(Planned) /\ (On(running) \/ \E j \in 1 .. i : steps[j].do = "reload")
        BY <3>1 DEF Harmless, Ahead
      <3>4. ASSUME NEW j \in 1 .. i, steps[j].do = "reload"
            PROVE  \E n \in 1 .. (i - 1) : steps'[n].do = "reload"
        <4>1. j # 1  BY <3>4, <2>1, <1>4
        <4>2. j - 1 \in 1 .. (i - 1) /\ j - 1 \in 1 .. Len(steps')  BY <4>1, <3>4
        <4>3. steps'[j - 1] = steps[j]  BY <4>2, <2>1, <1>4
        <4> QED BY <4>2, <4>3, <3>4
      <3> QED BY <3>2, <3>4
    <2> QED BY <2>1, <2>2, <1>4 DEF Harmless, KeepsContainers
  <1>8. CASE Edit
    BY <1>8 DEF Edit, Harmless, KeepsContainers, Ahead, Announced, Promise, Planned, Fixed, dockerd
  <1>9. CASE AdminRestart
    BY <1>9 DEF AdminRestart, Harmless, KeepsContainers, Ahead, Announced, Promise, Planned, Fixed
  <1>10. CASE UNCHANGED vars
    BY <1>10 DEF vars, Harmless, KeepsContainers, Ahead, Announced, Promise, Planned, Fixed, On
  <1> QED BY <1>1, <1>2, <1>3, <1>5, <1>6, <1>7, <1>8, <1>9, <1>10 DEF Next

\* If the user is careful, a step announced as harmless stops no container,
\* and on Linux none is stopped after the prompt said that they are kept, for
\* every daemon.json, selection and number of runs (next_steps 347-355,
\* render_apply_warnings 111-120).
THEOREM KeepsContainersHolds == ASSUME Careful PROVE Spec => []KeepsContainers
  <1>1. Spec => []Inv  BY InvInit, InvNext, PTL DEF Spec
  <1>2. Careful  OBVIOUS
  <1>3. Inv /\ Harmless /\ [Next]_vars => Harmless'  BY <1>2, HarmlessNext
  <1>4. Spec => []Harmless  BY <1>1, <1>3, HarmlessInit, PTL DEF Spec
  <1> QED BY <1>4, PTL DEF Harmless
-----------------------------------------------------------------------------
(* What the advice leaves behind once it is followed.  A setting that is   *)
(* not in force yet has the command that brings it there still ahead, and  *)
(* the containers are recreated last.                                      *)
StillAhead(do) == \E i \in 1 .. Len(steps) : steps[i].do = do

InForce ==
  phase = "advised" /\ alive /\ Parses(Planned) =>
    \A r \in Fixed : \A k \in Patched(r) :
      /\ running[k] = Planned[k] \/ StillAhead("restart") \/ (k = "live-restore" /\ StillAhead("reload"))
      /\ Recreates(r) => created[k] = Planned[k] \/ StillAhead("recreate")

RecreateLast == \A i \in 1 .. Len(steps) : steps[i].do = "recreate" => i = Len(steps)

Fulfilled == InForce /\ RecreateLast

\* The advice has a command for every fix.
LEMMA AdviceCovers ==
  ASSUME NEW s, s = ForDaemon \o ForContainers
  PROVE  /\ \A r \in Fixed : \A k \in Patched(r) :
              \/ \E i \in 1 .. Len(s) : s[i].do = "restart"
              \/ k = "live-restore" /\ \E i \in 1 .. Len(s) : s[i].do = "reload"
         /\ \A r \in Fixed : Recreates(r) => \E i \in 1 .. Len(s) : s[i].do = "recreate"
         /\ \A i \in 1 .. Len(s) : s[i].do = "recreate" => i = Len(s)
  <1>1. ForContainers = <<>> \/ ForContainers = <<[do |-> "recreate", says |-> "nothing"]>>
    BY DEF ForContainers, Step
  <1>2. \/ \E d \in {"restart", "reload"}, a \in {"nothing", "kept", "warned"} : ForDaemon = Step(d, a)
        \/ ForDaemon = Step("reload", "kept") \o Step("restart", "kept")
    BY DEF ForDaemon
  <1>3. \/ \E i \in 1 .. Len(ForDaemon) : ForDaemon[i].do = "restart"
        \/ PlanMethod(Fixed) = "reload" /\ \E i \in 1 .. Len(ForDaemon) : ForDaemon[i].do = "reload"
    BY DEF ForDaemon, Step
  <1>4. /\ \A i \in 1 .. Len(ForDaemon) : i \in 1 .. Len(s) /\ s[i] = ForDaemon[i]
        /\ \A i \in 1 .. Len(s) : s[i].do = "recreate" => i = Len(s)
        /\ ForContainers # <<>> => \E i \in 1 .. Len(s) : s[i].do = "recreate"
    <2>1. CASE ForContainers = <<>>  BY <1>2, <2>1 DEF Step
    <2>2. CASE ForContainers = <<[do |-> "recreate", says |-> "nothing"]>>
      <3>1. CASE \E d \in {"restart", "reload"}, a \in {"nothing", "kept", "warned"} : ForDaemon = Step(d, a)
        <4>1. Len(ForDaemon) = 1 /\ Len(s) = 2 /\ s[1] = ForDaemon[1] /\ s[2].do = "recreate" /\ s[1].do # "recreate"
          BY <2>2, <3>1 DEF Step
        <4> QED BY <4>1
      <3>2. CASE ForDaemon = Step("reload", "kept") \o Step("restart", "kept")
        <4>1. /\ Len(ForDaemon) = 2 /\ Len(s) = 3 /\ s[1] = ForDaemon[1] /\ s[2] = ForDaemon[2]
              /\ s[3].do = "recreate" /\ s[1].do # "recreate" /\ s[2].do # "recreate"
          BY <2>2, <3>2 DEF Step
        <4> QED BY <4>1
      <3> QED BY <1>2, <3>1, <3>2
    <2> QED BY <1>1, <2>1, <2>2
  <1>5. ASSUME PlanMethod(Fixed) = "reload", NEW r \in Fixed, NEW k \in Patched(r) PROVE k = "live-restore"
    <2>1. ApplyWith(r) # "restart"  BY <1>5 DEF PlanMethod
    <2>2. r \in AutoIds  BY AutoFixes DEF Fixed
    <2>3. r = "DAEMON-004"
      BY <2>1, <2>2 DEF AutoIds, ApplyWith, BooleanIds, BooleanRule, Icc, NoNewPrivileges
    <2> QED BY <2>3, <1>5, Owners
  <1>6. \A r \in Fixed : Recreates(r) => ForContainers # <<>>  BY DEF ForContainers, Step
  <1> QED BY <1>3, <1>4, <1>5, <1>6

LEMMA RecreatedKeys ==
  ASSUME NEW r \in Fixed, Recreates(r), NEW k \in Patched(r)
  PROVE  k # "live-restore"
  <1>1. r \in AutoIds  BY AutoFixes DEF Fixed
  <1>2. r # "DAEMON-004"  BY DEF Recreates, BooleanIds, BooleanRule, LiveRestore
  <1> QED BY <1>1, <1>2, Owners DEF AutoIds, LogKeys

LEMMA FixedKeys == ASSUME NEW r \in Fixed, NEW k \in Patched(r) PROVE k \in Keys
  <1>1. r \in AutoIds  BY AutoFixes DEF Fixed
  <1> QED BY <1>1, Owners DEF AutoIds, Keys, BooleanKeys, LogKeys

LEMMA FulfilledInit == Init => Fulfilled
  BY DEF Init, Fulfilled, InForce, RecreateLast

LEMMA FulfilledNext == Inv /\ Fulfilled /\ [Next]_vars => Fulfilled'
  <1> SUFFICES ASSUME Inv, Fulfilled, [Next]_vars PROVE Fulfilled'  OBVIOUS
  <1> USE DEF Fulfilled
  <1>1. ASSUME NEW s \in Selections, Run(s) PROVE Fulfilled'
    BY <1>1 DEF Run, InForce, RecreateLast
  <1>2. CASE Cancel
    BY <1>2 DEF Cancel, InForce, RecreateLast
  <1>3. CASE Apply
    <2>1. Planned' = Planned /\ Fixed' = Fixed  BY <1>3, FixesHostFree DEF Apply, Planned, Fixed
    <2>2. steps' = ForDaemon \o ForContainers  BY <1>3 DEF Apply
    <2>3. /\ \A r \in Fixed : \A k \in Patched(r) :
               StillAhead("restart")' \/ (k = "live-restore" /\ StillAhead("reload")')
          /\ \A r \in Fixed : Recreates(r) => StillAhead("recreate")'
          /\ RecreateLast'
      <3> DEFINE s == ForDaemon \o ForContainers
      <3> HIDE DEF s
      <3>1. steps' = s  BY <2>2 DEF s
      <3> QED BY <3>1, AdviceCovers DEF s, RecreateLast, StillAhead
    <2>4. InForce'  BY <2>1, <2>3 DEF InForce
    <2> QED BY <2>3, <2>4
  <1>4. ASSUME NEW c, Follow(c) PROVE
          /\ phase' = phase /\ file' = file /\ Planned' = Planned /\ Fixed' = Fixed
          /\ phase = "advised" => file = Planned
          /\ 1 \in 1 .. Len(steps) /\ steps[1].do = c
          /\ RecreateLast'
          /\ \A d : StillAhead(d) /\ d # c => StillAhead(d)'
          /\ c = "recreate" => \A d : StillAhead(d) => d = "recreate"
    <2>1. /\ phase' = phase /\ file' = file /\ Planned' = Planned /\ Fixed' = Fixed
          /\ phase = "advised" => file = Planned
          /\ 1 \in 1 .. Len(steps) /\ steps[1].do = c /\ Len(steps') = Len(steps) - 1
          /\ \A i \in 1 .. Len(steps') : steps'[i] = steps[i + 1] /\ i + 1 \in 1 .. Len(steps)
          /\ \A i \in 1 .. Len(steps) : i # 1 => i - 1 \in 1 .. Len(steps') /\ steps'[i - 1] = steps[i]
      BY <1>4 DEF Follow, Inv, Written, TypeOK, Planned, Fixed
    <2>0. Len(steps) \in Nat  BY DEF Inv, TypeOK
    <2>2. RecreateLast'
      <3> SUFFICES ASSUME NEW i \in 1 .. Len(steps'), steps'[i].do = "recreate" PROVE i = Len(steps')
        BY DEF RecreateLast
      <3>1. i + 1 = Len(steps)  BY <2>1 DEF RecreateLast
      <3> QED BY <2>0, <2>1, <3>1
    <2>3. \A d : StillAhead(d) /\ d # c => StillAhead(d)'
      BY <2>1 DEF StillAhead
    <2>4. ASSUME c = "recreate", NEW d, StillAhead(d) PROVE d = "recreate"
      <3>1. Len(steps) = 1  BY <2>1, <2>4 DEF RecreateLast
      <3> QED BY <2>1, <2>4, <3>1 DEF StillAhead
    <2> QED BY <2>1, <2>2, <2>3, <2>4
  <1>5. CASE FollowReload
    <2>1. Follow("reload")  BY <1>5 DEF FollowReload
    <2>2. ASSUME phase = "advised", Parses(Planned), NEW k \in Keys, running[k] = Planned[k] \/ k = "live-restore"
          PROVE  running'[k] = Planned[k]
      <3>1. running' = [j \in Keys |-> IF j \in Reloaded THEN Planned[j] ELSE running[j]]
        BY <2>1, <2>2, <1>4, <1>5 DEF FollowReload, Reload
      <3> QED BY <3>1, <2>2 DEF Reloaded
    <2>3. created' = created /\ alive' = alive  BY <1>5 DEF FollowReload, Reload
    <2>4. InForce'
      BY <2>1, <2>2, <2>3, <1>4, FixedKeys DEF InForce, Parses
    <2> QED BY <2>1, <2>4, <1>4
  <1>6. CASE FollowRestart
    <2>1. Follow("restart")  BY <1>6 DEF FollowRestart
    <2>2. alive' => running' = file /\ created' = created  BY <1>6 DEF FollowRestart, Restart
    <2>3. alive  BY <2>1 DEF Follow
    <2>4. InForce'
      BY <2>1, <2>2, <2>3, <1>4 DEF InForce, Parses
    <2> QED BY <2>1, <2>4, <1>4
  <1>7. CASE FollowRecreate
    <2>1. Follow("recreate") /\ running' = running /\ created' = running /\ alive' = alive
      BY <1>7 DEF FollowRecreate, Recreate
    <2>2. ASSUME phase = "advised", alive, Parses(Planned), NEW r \in Fixed, NEW k \in Patched(r)
          PROVE  running[k] = Planned[k]
      <3>1. ~StillAhead("restart") /\ ~StillAhead("reload")  BY <2>1, <1>4
      <3> QED BY <3>1, <2>2 DEF InForce
    <2>3. InForce'
      BY <2>1, <2>2, <1>4 DEF InForce, Parses
    <2> QED BY <2>1, <2>3, <1>4
  <1>8. CASE Edit
    BY <1>8 DEF Edit, InForce, RecreateLast
  <1>9. CASE AdminRestart
    BY <1>9 DEF AdminRestart, InForce, RecreateLast
  <1>10. CASE UNCHANGED vars
    BY <1>10 DEF vars, InForce, RecreateLast, StillAhead, Planned, Fixed, Parses
  <1> QED BY <1>1, <1>2, <1>3, <1>5, <1>6, <1>7, <1>8, <1>9, <1>10 DEF Next

\* Whoever follows the advice to its end, careful or not, has every fix in
\* force in dockerd and, for the defaults of new containers, in the containers
\* (next_steps 345-371).
THEOREM TakesEffectHolds == Spec => []TakesEffect
  <1>1. Spec => []Inv  BY InvInit, InvNext, PTL DEF Spec
  <1>2. Spec => []Fulfilled  BY <1>1, FulfilledInit, FulfilledNext, PTL DEF Spec
  <1>3. Fulfilled => TakesEffect
    <2> SUFFICES ASSUME Fulfilled, phase = "advised", steps = <<>>, alive, Parses(Planned) PROVE TakesEffect
      BY DEF TakesEffect
    <2>1. \A d : ~StillAhead(d)  BY DEF StillAhead
    <2> QED BY <2>1 DEF Fulfilled, InForce, TakesEffect
  <1> QED BY <1>2, <1>3, PTL
-----------------------------------------------------------------------------
(* Why dockerd would not come back.                                        *)
Warned ==
  /\ phase = "prompt" => alive /\ steps = <<>>
  /\ phase = "advised" /\ verdict = "ok" => Parses(Planned)
  /\ DiesOnlyWarned

LEMMA WarnedInit == Init => Warned
  BY DEF Init, Warned, DiesOnlyWarned

\* No fix touches the seccomp profile.
LEMMA ProfileKept == ASSUME TypeOK PROVE Planned["seccomp-profile"] = plan.before["seccomp-profile"]
  <1>1. "seccomp-profile" \in Keys \ ({"icc", "no-new-privileges", "live-restore"} \cup LogKeys)
    BY DEF Keys, LogKeys, BooleanKeys
  <1>2. Fixed \in SUBSET AutoIds  BY AutoFixes DEF Fixed
  <1> QED BY <1>1, <1>2, AfterByKey DEF Planned

LEMMA ProfileVerdict ==
  ASSUME NEW c, NEW h
  PROVE  Verdict("DAEMON-008", c, h) = SeccompVerdict(c)
  BY DEF Verdict, BooleanIds

LEMMA WarnedNext == Inv /\ Warned /\ [Next]_vars => Warned'
  <1> SUFFICES ASSUME Inv, Warned, [Next]_vars PROVE Warned'  OBVIOUS
  <1> USE DEF Warned, DiesOnlyWarned
  <1>1. ASSUME NEW s \in Selections, Run(s) PROVE Warned'
    BY <1>1 DEF Run, dockerd
  <1>2. CASE Cancel
    BY <1>2 DEF Cancel, dockerd
  <1>3. CASE Apply
    <2>1. Planned' = Planned  BY <1>3, FixesHostFree DEF Apply, Planned, Fixed
    <2>2. alive' /\ (verdict' = "ok" => Parses(Planned))  BY <1>3 DEF Apply, dockerd
    <2> QED BY <1>3, <2>1, <2>2 DEF Apply, Parses
  <1>4. ASSUME NEW c, Follow(c) PROVE
          /\ phase' = phase /\ verdict' = verdict /\ plan' = plan /\ host' = host /\ Planned' = Planned
          /\ phase # "prompt" /\ alive
    BY <1>4 DEF Follow, Planned, Fixed
  <1>5. CASE FollowReload
    BY <1>5, <1>4 DEF FollowReload, Reload, Parses
  <1>6. CASE FollowRestart
    <2>1. Follow("restart")  BY <1>6 DEF FollowRestart
    <2>2. ASSUME ~alive', phase = "advised", verdict = "ok" PROVE Verdict("DAEMON-008", plan.before, host) = "WARN"
      <3>1. ~Starts(file) /\ file = Planned /\ Parses(Planned)
        BY <2>1, <2>2, <1>4, <1>6 DEF FollowRestart, Restart, Inv, Written
      <3>2. plan.before["seccomp-profile"] = "missing"  BY <3>1, ProfileKept DEF Starts, Inv
      <3> QED BY <3>2, ProfileVerdict DEF SeccompVerdict
    <2> QED BY <2>1, <2>2, <1>4 DEF Parses
  <1>7. CASE FollowRecreate
    BY <1>7, <1>4 DEF FollowRecreate, Recreate, Parses
  <1>8. CASE Edit
    BY <1>8 DEF Edit, dockerd
  <1>9. CASE AdminRestart
    BY <1>9 DEF AdminRestart, Planned, Fixed, Parses
  <1>10. CASE UNCHANGED vars
    BY <1>10 DEF vars, Planned, Fixed, Parses
  <1> QED BY <1>1, <1>2, <1>3, <1>5, <1>6, <1>7, <1>8, <1>9, <1>10 DEF Next

\* After a run that `dockerd --validate` accepted, the advice takes dockerd
\* down only for a seccomp profile the scan had warned of (seccomp.py 89-96).
THEOREM DiesOnlyWarnedHolds == Spec => []DiesOnlyWarned
  <1>1. Spec => []Inv  BY InvInit, InvNext, PTL DEF Spec
  <1>2. Spec => []Warned  BY <1>1, WarnedInit, WarnedNext, PTL DEF Spec
  <1> QED BY <1>2, PTL DEF Warned
=============================================================================
