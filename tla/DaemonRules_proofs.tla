------------------------- MODULE DaemonRules_proofs -------------------------
(***************************************************************************)
(* Facts about plans that hold for every daemon.json, host and selection.  *)
(***************************************************************************)
EXTENDS DaemonRules, TLAPS

AutoIds == {"DAEMON-001", "DAEMON-002", "DAEMON-004", "DAEMON-005"}

\* Only four rules have a fix (fix_risk of the rule classes).
LEMMA AutoFixes ==
  ASSUME NEW c, NEW h, NEW s
  PROVE  Fixes(c, h, s) \subseteq AutoIds
  <1> SUFFICES ASSUME NEW r \in Ids, Risk(r) # "none" PROVE r \in AutoIds
    BY DEF Fixes, Fixable
  <1> QED
    BY DEF Ids, AutoIds, Risk, BooleanIds, BooleanRule, Icc, NoNewPrivileges, UserlandProxy,
           LiveRestore, Iptables

\* The rules that have a fix look at daemon.json only.
LEMMA AutoVerdicts ==
  ASSUME NEW c, NEW h
  PROVE  /\ Verdict("DAEMON-001", c, h) = BooleanVerdict(c, Icc)
         /\ Verdict("DAEMON-002", c, h) = BooleanVerdict(c, NoNewPrivileges)
         /\ Verdict("DAEMON-004", c, h) = BooleanVerdict(c, LiveRestore)
         /\ Verdict("DAEMON-005", c, h) = LogVerdict(c)
  BY DEF Verdict, BooleanIds, BooleanRule

\* ... so what a run fixes does not depend on the host.
LEMMA FixesHostFree ==
  ASSUME NEW c, NEW h, NEW g, NEW s
  PROVE  Fixes(c, h, s) = Fixes(c, g, s)
  <1>1. ASSUME NEW r \in Ids, Risk(r) # "none" PROVE Fixable(r, c, h) <=> Fixable(r, c, g)
    <2>1. r \in AutoIds
      BY <1>1 DEF Ids, AutoIds, Risk, BooleanIds, BooleanRule, Icc, NoNewPrivileges, UserlandProxy,
           LiveRestore, Iptables
    <2>2. Verdict(r, c, h) = Verdict(r, c, g)
      BY <2>1, AutoVerdicts DEF AutoIds
    <2> QED BY <2>2 DEF Fixable, Problem
  <1> QED BY <1>1 DEF Fixes, Fixable

\* The settings each fix owns.
LEMMA Owners ==
  /\ Patched("DAEMON-001") = {"icc"} /\ Patched("DAEMON-002") = {"no-new-privileges"}
  /\ Patched("DAEMON-004") = {"live-restore"} /\ Patched("DAEMON-005") = LogKeys
  BY DEF Patched, BooleanIds, BooleanRule, Icc, NoNewPrivileges, LiveRestore

LEMMA FixedValues ==
  ASSUME NEW c
  PROVE  /\ NewValue(c, "icc") = "false" /\ NewValue(c, "no-new-privileges") = "true"
         /\ NewValue(c, "live-restore") = "true"
         /\ NewValue(c, "log-opts") = "object" /\ NewValue(c, "max-size") = "10m"
         /\ NewValue(c, "log-driver") = (IF c["log-driver"] = "absent" THEN "json-file" ELSE c["log-driver"])
         /\ NewValue(c, "max-file") = (IF c["max-file"] = "absent" THEN "3" ELSE c["max-file"])
  BY DEF NewValue, Recommended, Icc, NoNewPrivileges, UserlandProxy, LiveRestore, Iptables

\* What a plan does to each setting it may touch.
LEMMA AfterByKey ==
  ASSUME NEW c, NEW F \in SUBSET AutoIds, NEW a, a = After(c, F)
  PROVE  /\ a["icc"] = (IF "DAEMON-001" \in F THEN "false" ELSE c["icc"])
         /\ a["no-new-privileges"] = (IF "DAEMON-002" \in F THEN "true" ELSE c["no-new-privileges"])
         /\ a["live-restore"] = (IF "DAEMON-004" \in F THEN "true" ELSE c["live-restore"])
         /\ \A k \in LogKeys : a[k] = IF "DAEMON-005" \in F THEN NewValue(c, k) ELSE c[k]
         /\ \A k \in Keys \ ({"icc", "no-new-privileges", "live-restore"} \cup LogKeys) : a[k] = c[k]
  <1> DEFINE Owned(k) ==
        \/ k = "icc" /\ "DAEMON-001" \in F
        \/ k = "no-new-privileges" /\ "DAEMON-002" \in F
        \/ k = "live-restore" /\ "DAEMON-004" \in F
        \/ k \in LogKeys /\ "DAEMON-005" \in F
  <1>2. ASSUME NEW k PROVE (\E r \in F : k \in Patched(r)) <=> Owned(k)
    <2>1. ASSUME NEW r \in F, k \in Patched(r) PROVE Owned(k)
      <3>1. r \in AutoIds OBVIOUS
      <3> QED BY <2>1, <3>1, Owners DEF AutoIds
    <2>2. ASSUME Owned(k) PROVE \E r \in F : k \in Patched(r)
      BY <2>2, Owners
    <2> QED BY <2>1, <2>2
  <1>1. \A k \in Keys : a[k] = IF Owned(k) THEN NewValue(c, k) ELSE c[k]
    BY <1>2 DEF After
  <1>3. {"icc", "no-new-privileges", "live-restore"} \subseteq Keys /\ LogKeys \subseteq Keys
        /\ "icc" \notin LogKeys /\ "no-new-privileges" \notin LogKeys /\ "live-restore" \notin LogKeys
    BY DEF Keys, LogKeys, BooleanKeys
  <1> QED BY <1>1, <1>3, FixedValues

LEMMA KindsOf ==
  /\ "false" \in Kinds("icc") /\ "true" \in Kinds("no-new-privileges") /\ "true" \in Kinds("live-restore")
  /\ "json-file" \in Kinds("log-driver") /\ "object" \in Kinds("log-opts")
  /\ "10m" \in Kinds("max-size") /\ "3" \in Kinds("max-file")
  BY DEF Kinds, BooleanKeys

\* A plan turns a daemon.json into a daemon.json.
LEMMA AfterIsConfig ==
  ASSUME NEW c, IsConfig(c), NEW F \in SUBSET AutoIds
  PROVE  IsConfig(After(c, F))
  <1> DEFINE a == After(c, F)
  <1> HIDE DEF a
  <1>0. a = After(c, F)  BY DEF a
  <1>1. DOMAIN a = Keys  BY <1>0 DEF After
  <1>2. ASSUME NEW k \in Keys PROVE a[k] \in Kinds(k)
    <2>1. c[k] \in Kinds(k)  BY DEF IsConfig
    <2>2. CASE k \in LogKeys
      <3>1. k \in {"log-driver", "log-opts", "max-size", "max-file"}  BY <2>2 DEF LogKeys
      <3> QED BY <2>1, <2>2, <3>1, <1>0, AfterByKey, FixedValues, KindsOf
    <2>3. CASE k \in {"icc", "no-new-privileges", "live-restore"}
      BY <2>1, <2>3, <1>0, AfterByKey, KindsOf
    <2>4. CASE k \notin LogKeys \cup {"icc", "no-new-privileges", "live-restore"}
      BY <2>1, <2>4, <1>0, AfterByKey
    <2> QED BY <2>2, <2>3, <2>4
  <1>3. a["log-opts"] # "object" => a["max-size"] = "absent" /\ a["max-file"] = "absent"
    <2>1. {"log-opts", "max-size", "max-file"} \subseteq LogKeys  BY DEF LogKeys
    <2> QED BY <2>1, <1>0, AfterByKey, FixedValues DEF IsConfig
  <1> QED BY <1>0, <1>1, <1>2, <1>3 DEF IsConfig

\* Each fix repairs what its rule found.
LEMMA AfterResolves ==
  ASSUME NEW c, IsConfig(c), NEW h, NEW g, NEW s, NEW r \in Fixes(c, h, s)
  PROVE  Verdict(r, After(c, Fixes(c, h, s)), g) = "PASS"
  <1> DEFINE F == Fixes(c, h, s)
             a == After(c, F)
  <1>0. F \in SUBSET AutoIds /\ r \in AutoIds  BY AutoFixes
  <1> HIDE DEF a, F
  <1>1. r \in F /\ a = After(c, F)  BY DEF a, F
  <1>2. CASE r = "DAEMON-001"
    <2>1. a["icc"] = "false"  BY <1>0, <1>1, <1>2, AfterByKey
    <2>2. BooleanVerdict(a, Icc) = "PASS"  BY <2>1 DEF BooleanVerdict, Icc, Status
    <2> QED BY <2>2, <1>2, AutoVerdicts DEF a, F
  <1>3. CASE r = "DAEMON-002"
    <2>1. a["no-new-privileges"] = "true"  BY <1>0, <1>1, <1>3, AfterByKey
    <2>2. BooleanVerdict(a, NoNewPrivileges) = "PASS"  BY <2>1 DEF BooleanVerdict, NoNewPrivileges, Status
    <2> QED BY <2>2, <1>3, AutoVerdicts DEF a, F
  <1>4. CASE r = "DAEMON-004"
    <2>1. a["live-restore"] = "true"  BY <1>0, <1>1, <1>4, AfterByKey
    <2>2. BooleanVerdict(a, LiveRestore) = "PASS"  BY <2>1 DEF BooleanVerdict, LiveRestore, Status
    <2> QED BY <2>2, <1>4, AutoVerdicts DEF a, F
  <1>5. CASE r = "DAEMON-005"
    <2>1. LogVerdict(c) = "FAIL"  BY <1>5, <1>1, AutoVerdicts DEF F, Fixes, Fixable
    <2>2. c["log-driver"] \notin {"bad", "none"} /\ c["log-opts"] # "bad"
      BY <2>1 DEF LogVerdict, Status
    <2>3. /\ a["log-opts"] = "object" /\ a["max-size"] = "10m"
          /\ a["log-driver"] = IF c["log-driver"] = "absent" THEN "json-file" ELSE c["log-driver"]
      BY <1>0, <1>1, <1>5, AfterByKey, FixedValues DEF LogKeys
    <2>4. LogVerdict(a) = "PASS"  BY <2>2, <2>3 DEF LogVerdict, Status
    <2> QED BY <2>4, <1>5, AutoVerdicts DEF a, F
  <1> QED BY <1>0, <1>2, <1>3, <1>4, <1>5 DEF AutoIds

\* The verdict of a rule with a fix depends on the settings that fix owns.
LEMMA VerdictByOwned ==
  ASSUME NEW c, NEW d, NEW h, NEW g, NEW r \in AutoIds, \A k \in Patched(r) : c[k] = d[k]
  PROVE  Verdict(r, c, h) = Verdict(r, d, g)
  <1>1. CASE r = "DAEMON-001"
    BY <1>1, Owners, AutoVerdicts DEF BooleanVerdict, Icc
  <1>2. CASE r = "DAEMON-002"
    BY <1>2, Owners, AutoVerdicts DEF BooleanVerdict, NoNewPrivileges
  <1>3. CASE r = "DAEMON-004"
    BY <1>3, Owners, AutoVerdicts DEF BooleanVerdict, LiveRestore
  <1>4. CASE r = "DAEMON-005"
    BY <1>4, Owners, AutoVerdicts DEF LogVerdict, LogKeys
  <1> QED BY <1>1, <1>2, <1>3, <1>4 DEF AutoIds

\* A second run with the same selection finds nothing to fix.
LEMMA AfterQuiet ==
  ASSUME NEW c, IsConfig(c), NEW h, NEW g, NEW s
  PROVE  Fixes(After(c, Fixes(c, h, s)), g, s) = {}
  <1> DEFINE F == Fixes(c, h, s)
             a == After(c, F)
  <1> SUFFICES ASSUME NEW r \in Fixes(a, g, s) PROVE FALSE  OBVIOUS
  <1>1. r \in AutoIds /\ F \in SUBSET AutoIds  BY AutoFixes
  <1>2. Verdict(r, a, g) # "PASS"  BY DEF Fixes, Fixable, Problem
  <1>3. r \notin F  BY <1>2, AfterResolves
  <1>4. \A k \in Patched(r) : a[k] = c[k]
    <2> HIDE DEF F, a
    <2>1. a = After(c, F)  BY DEF a
    <2>2. r \in {"DAEMON-001", "DAEMON-002", "DAEMON-004", "DAEMON-005"}  BY <1>1 DEF AutoIds
    <2> QED BY <1>1, <1>3, <2>1, <2>2, AfterByKey, Owners
  <1>5. Verdict(r, a, g) = Verdict(r, c, h)
    <2> HIDE DEF a
    <2> QED BY <1>1, <1>4, VerdictByOwned
  <1>6. Fixable(r, c, h)
    <2>1. Fixable(r, a, g)  BY DEF Fixes
    <2> QED BY <2>1, <1>5 DEF Fixable, Problem
  <1>7. r \in F  BY <1>6 DEF Fixes
  <1> QED BY <1>3, <1>7
\* A fix that is listed and dropped again is that of a Boolean written as a number.
LEMMA DropsOnlyNumbers ==
  ASSUME NEW c, IsConfig(c), NEW h, NEW s, ~HasChanges(c, Fixes(c, h, s)), NEW r \in Fixes(c, h, s)
  PROVE  r \in BooleanIds /\ c[BooleanRule(r).key] = "number"
  <1> DEFINE F == Fixes(c, h, s)
             a == After(c, F)
  <1>0. F \in SUBSET AutoIds /\ r \in AutoIds  BY AutoFixes
  <1>1. \A k \in Keys : PythonEqual(k, c[k], a[k])  BY DEF HasChanges
  <1>2. Fixable(r, c, h)  BY DEF Fixes
  <1> HIDE DEF a, F
  <1>3. r \in F /\ a = After(c, F)  BY DEF a, F
  <1>4. {"icc", "no-new-privileges", "live-restore", "max-size"} \subseteq Keys  BY DEF Keys, BooleanKeys, LogKeys
  <1>5. CASE r = "DAEMON-001"
    <2>1. a["icc"] = "false"  BY <1>0, <1>3, <1>5, AfterByKey
    <2>2. c["icc"] = "false" \/ c["icc"] = "number"  BY <1>1, <1>4, <2>1 DEF PythonEqual
    <2>3. BooleanVerdict(c, Icc) # "PASS"  BY <1>2, <1>5, AutoVerdicts DEF Fixable, Problem
    <2>4. c["icc"] # "false"  BY <2>3 DEF BooleanVerdict, Icc, Status
    <2> QED BY <2>2, <2>4, <1>5 DEF BooleanIds, BooleanRule, Icc
  <1>6. CASE r = "DAEMON-002"
    <2>1. a["no-new-privileges"] = "true"  BY <1>0, <1>3, <1>6, AfterByKey
    <2>2. c["no-new-privileges"] = "true" \/ c["no-new-privileges"] = "number"
      BY <1>1, <1>4, <2>1 DEF PythonEqual
    <2>3. BooleanVerdict(c, NoNewPrivileges) # "PASS"  BY <1>2, <1>6, AutoVerdicts DEF Fixable, Problem
    <2>4. c["no-new-privileges"] # "true"  BY <2>3 DEF BooleanVerdict, NoNewPrivileges, Status
    <2> QED BY <2>2, <2>4, <1>6 DEF BooleanIds, BooleanRule, NoNewPrivileges
  <1>7. CASE r = "DAEMON-004"
    <2>1. a["live-restore"] = "true"  BY <1>0, <1>3, <1>7, AfterByKey
    <2>2. c["live-restore"] = "true" \/ c["live-restore"] = "number"  BY <1>1, <1>4, <2>1 DEF PythonEqual
    <2>3. BooleanVerdict(c, LiveRestore) # "PASS"  BY <1>2, <1>7, AutoVerdicts DEF Fixable, Problem
    <2>4. c["live-restore"] # "true"  BY <2>3 DEF BooleanVerdict, LiveRestore, Status
    <2> QED BY <2>2, <2>4, <1>7 DEF BooleanIds, BooleanRule, LiveRestore
  <1>8. CASE r = "DAEMON-005"
    <2>1. LogVerdict(c) = "FAIL"  BY <1>2, <1>8, AutoVerdicts DEF Fixable
    <2>2. c["max-size"] = "absent"  BY <2>1 DEF LogVerdict, Status
    <2>3. a["max-size"] = "10m"  BY <1>0, <1>3, <1>8, AfterByKey, FixedValues DEF LogKeys
    <2> QED BY <1>1, <1>4, <2>2, <2>3 DEF PythonEqual
  <1> QED BY <1>0, <1>5, <1>6, <1>7, <1>8 DEF AutoIds
=============================================================================
