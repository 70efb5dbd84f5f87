---------------------------- MODULE MCRemediation ----------------------------
(***************************************************************************)
(* Remediation for TLC: the values that the fixes, the advice and dockerd  *)
(* tell apart, one odd value at a time for the rest.                       *)
(***************************************************************************)
EXTENDS Remediation

With(base, k, values) == {[base EXCEPT ![k] = v] : v \in values}
Own == [NoSettings EXCEPT !["log-driver"] = "json-file", !["log-opts"] = "object", !["max-file"] = "own"]
Secure == [NoSettings EXCEPT !["icc"] = "false", !["no-new-privileges"] = "true", !["live-restore"] = "true",
                             !["log-driver"] = "local"]

SmallContents ==
  LET live == UNION {With(c, "live-restore", {"absent", "true", "bad"}) : c \in {NoSettings, Own, Secure}}
  IN live \cup UNION {With(c, "seccomp-profile", {"missing"}) : c \in live}
          \cup {[Secure EXCEPT !["no-new-privileges"] = "number"],
                [Secure EXCEPT !["no-new-privileges"] = "number", !["icc"] = "bad"],
                [Own EXCEPT !["log-opts"] = "bad", !["max-file"] = "absent"],
                [Secure EXCEPT !["log-driver"] = "none", !["icc"] = "true"]}

MCHosts == {[info |-> "plain", rootless |-> FALSE, stat |-> s] : s \in {"nofile", "good"}}
MCSelections == {{}, {"DAEMON-001"}, {"DAEMON-004"}, {"DAEMON-002", "DAEMON-005"}, {"DAEMON-001", "DAEMON-003"}}
=============================================================================
