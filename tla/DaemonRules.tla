----------------------------- MODULE DaemonRules -----------------------------
(***************************************************************************)
(* The ten rules of src/dockguard/rules/daemon: what each one says of a    *)
(* daemon.json, and the plan build_plan (remediators/daemon_remediator.py) *)
(* makes of what they say.                                                 *)
(*                                                                         *)
(* A config maps every setting to the kind of value it has: "absent",      *)
(* "bad" (of a type dockerd rejects) or one the rules tell apart.  The     *)
(* "number" of a Boolean is the 0 or 1 that Python finds equal to the      *)
(* recommended value.  The members of log-opts are settings of their own.  *)
(***************************************************************************)
EXTENDS FiniteSets

BooleanKeys == {"icc", "no-new-privileges", "userland-proxy", "live-restore", "iptables"}
LogKeys == {"log-driver", "log-opts", "max-size", "max-file"}
Keys == BooleanKeys \cup LogKeys
          \cup {"userns-remap", "seccomp-profile", "insecure-registries", "registry-mirrors"}

Kinds(k) ==
  {"absent"} \cup
  CASE k \in BooleanKeys -> {"bad", "true", "false", "number"}
    [] k = "log-driver" -> {"bad", "json-file", "none", "local", "syslog"}
    [] k = "log-opts" -> {"bad", "object"}
    [] k = "max-size" -> {"10m", "own"}
    [] k = "max-file" -> {"3", "own"}
    [] k = "userns-remap" -> {"bad", "empty", "default"}
    [] k = "seccomp-profile" -> {"bad", "empty", "builtin", "unconfined", "present", "missing"}
    [] k = "insecure-registries" -> {"bad", "loopback", "remote"}
    [] OTHER -> {"bad", "https", "http"}

\* What a daemon.json can hold.
IsConfig(c) ==
  /\ DOMAIN c = Keys
  /\ \A k \in Keys : c[k] \in Kinds(k)
  /\ c["log-opts"] # "object" => c["max-size"] = "absent" /\ c["max-file"] = "absent"

NoSettings == [k \in Keys |-> "absent"]

\* What else the rules look at: the security options of `docker info`, where
\* the file lives, and its owner and permissions.
Hosts == [info : {"unavailable", "plain", "userns", "rootless"}, rootless : BOOLEAN,
          stat : {"nofile", "none", "good", "bad"}]

Ids == {"DAEMON-001", "DAEMON-002", "DAEMON-003", "DAEMON-004", "DAEMON-005",
        "DAEMON-006", "DAEMON-007", "DAEMON-008", "DAEMON-009", "DAEMON-010"}
BooleanIds == {"DAEMON-001", "DAEMON-002", "DAEMON-003", "DAEMON-004", "DAEMON-009"}
-----------------------------------------------------------------------------
(* The rules.                                                              *)
Icc == [key |-> "icc", recommended |-> "false", default |-> "true",
        risk |-> "risky", apply |-> "restart", recreate |-> FALSE]
NoNewPrivileges == [key |-> "no-new-privileges", recommended |-> "true", default |-> "false",
                    risk |-> "safe", apply |-> "restart", recreate |-> TRUE]
UserlandProxy == [key |-> "userland-proxy", recommended |-> "false", default |-> "true",
                  risk |-> "none", apply |-> "restart", recreate |-> FALSE]
LiveRestore == [key |-> "live-restore", recommended |-> "true", default |-> "false",
                risk |-> "safe", apply |-> "reload", recreate |-> FALSE]
Iptables == [key |-> "iptables", recommended |-> "true", default |-> "true",
             risk |-> "none", apply |-> "restart", recreate |-> FALSE]

BooleanRule(r) == CASE r = "DAEMON-001" -> Icc
                    [] r = "DAEMON-002" -> NoNewPrivileges
                    [] r = "DAEMON-003" -> UserlandProxy
                    [] r = "DAEMON-004" -> LiveRestore
                    [] OTHER -> Iptables

Status(pass) == IF pass THEN "PASS" ELSE "FAIL"

\* A missing key means Docker's default, not that all is well.
BooleanVerdict(c, b) ==
  CASE c[b.key] = "absent" -> Status(b.default = b.recommended)
    [] c[b.key] \in {"bad", "number"} -> "WARN"
    [] OTHER -> Status(c[b.key] = b.recommended)

LogVerdict(c) ==
  IF c["log-driver"] \in {"bad", "none"} \/ c["log-opts"] = "bad" THEN "WARN"
  ELSE Status(c["log-driver"] \in {"local", "syslog"} \/ c["max-size"] # "absent")

UsernsVerdict(c, h) ==
  IF h.info \in {"userns", "rootless"} \/ h.rootless THEN "PASS"
  ELSE IF c["userns-remap"] = "bad" THEN "WARN"
  ELSE Status(c["userns-remap"] = "default")

PermissionVerdict(h) == IF h.stat \in {"nofile", "none"} THEN "SKIP" ELSE Status(h.stat = "good")

TrustingVerdict(c) ==
  IF c["seccomp-profile"] = "bad" THEN "WARN" ELSE Status(c["seccomp-profile"] # "unconfined")
SeccompVerdict(c) ==
  IF c["seccomp-profile"] \in {"bad", "missing"} THEN "WARN"
  ELSE Status(c["seccomp-profile"] # "unconfined")

RegistryVerdict(c) ==
  IF c["insecure-registries"] = "bad" \/ c["registry-mirrors"] = "bad" THEN "WARN"
  ELSE Status(c["insecure-registries"] # "remote" /\ c["registry-mirrors"] # "http")

Verdict(r, c, h) ==
  CASE r \in BooleanIds -> BooleanVerdict(c, BooleanRule(r))
    [] r = "DAEMON-005" -> LogVerdict(c)
    [] r = "DAEMON-006" -> UsernsVerdict(c, h)
    [] r = "DAEMON-007" -> PermissionVerdict(h)
    [] r = "DAEMON-008" -> SeccompVerdict(c)
    [] OTHER -> RegistryVerdict(c)

Problem(r, c, h) == Verdict(r, c, h) \in {"FAIL", "WARN"}
-----------------------------------------------------------------------------
(* The plan.                                                               *)
Risk(r) == IF r \in BooleanIds THEN BooleanRule(r).risk
           ELSE IF r = "DAEMON-005" THEN "safe" ELSE "none"
ApplyWith(r) == IF r \in BooleanIds THEN BooleanRule(r).apply ELSE "restart"
Recreates(r) == IF r \in BooleanIds THEN BooleanRule(r).recreate ELSE r = "DAEMON-005"

\* plan_fix: a log rule that only warns has no patch.
WarnedFixable(r, c, h) == Risk(r) # "none" /\ Problem(r, c, h)
Fixable(r, c, h) ==
  /\ Risk(r) # "none"
  /\ Problem(r, c, h)
  /\ r = "DAEMON-005" => Verdict(r, c, h) = "FAIL"

\* build_plan: no --rule selects every rule, but a risky one only by name.
FixesAnything(c, h, selected) == {r \in Ids : Fixable(r, c, h)}
Fixes(c, h, selected) ==
  {r \in Ids : /\ Fixable(r, c, h)
               /\ r \in selected \/ (selected = {} /\ Risk(r) # "risky")}

Patched(r) == IF r \in BooleanIds THEN {BooleanRule(r).key}
              ELSE IF r = "DAEMON-005" THEN LogKeys ELSE {}

Recommended(k) == CASE k = Icc.key -> Icc.recommended
                    [] k = NoNewPrivileges.key -> NoNewPrivileges.recommended
                    [] k = UserlandProxy.key -> UserlandProxy.recommended
                    [] k = LiveRestore.key -> LiveRestore.recommended
                    [] OTHER -> Iptables.recommended

\* The value a patch leaves: what the user chose in log-opts is kept.
OwnLost(c, k) ==
  CASE k = "log-driver" -> IF c[k] = "absent" THEN "json-file" ELSE c[k]
    [] k = "log-opts" -> "object"
    [] k = "max-size" -> "10m"
    [] k = "max-file" -> "3"
    [] OTHER -> Recommended(k)
NewValue(c, k) ==
  CASE k = "log-driver" -> IF c[k] = "absent" THEN "json-file" ELSE c[k]
    [] k = "log-opts" -> "object"
    [] k = "max-size" -> "10m"
    [] k = "max-file" -> IF c[k] = "absent" THEN "3" ELSE c[k]
    [] OTHER -> Recommended(k)

\* _apply_patches: the patches touch different settings, so order is moot.
After(c, fixes) ==
  [k \in Keys |-> IF \E r \in fixes : k \in Patched(r) THEN NewValue(c, k) ELSE c[k]]

\* has_changes compares as Python does, where 1 == True and 0 == False.
TruthEqual(k, old, new) == old = new \/ (old \in {"number", "bad"} /\ k \in BooleanKeys)
PythonEqual(k, old, new) == old = new \/ (old = "number" /\ new = Recommended(k))
HasChanges(c, fixes) ==
  fixes # {} /\ \E k \in Keys : ~PythonEqual(k, c[k], After(c, fixes)[k])

PlanMethod(fixes) == IF \E r \in fixes : ApplyWith(r) = "restart" THEN "restart" ELSE "reload"
=============================================================================
