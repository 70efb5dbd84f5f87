-------------------------------- MODULE Ruleset --------------------------------
(***************************************************************************)
(* The rules a scan may run and the file that turns some of them off or    *)
(* gives them another severity (src/dockguard/core/ruleset.py): where it   *)
(* is looked for, when it is refused, and what it means.                   *)
(*                                                                         *)
(* Six rules stand for all: two of the daemon, one of them with a second   *)
(* source of its data (DAEMON-006 asks Docker first), one of compose that  *)
(* reads the daemon's default too, and the three network rules that judge  *)
(* the snapshot, one of which falls back to compose.                       *)
(***************************************************************************)
EXTENDS Naturals, Sequences

Categories == {"daemon", "compose", "network"}
RuleOrder == <<"COMPOSE-003", "DAEMON-002", "DAEMON-006", "NET-002", "NET-003", "NET-004">>
Rules == {RuleOrder[i] : i \in DOMAIN RuleOrder}
Position(r) == CHOOSE i \in DOMAIN RuleOrder : RuleOrder[i] = r
CategoryOf(r) ==
  CASE r = "COMPOSE-003" -> "compose"
    [] r \in {"DAEMON-002", "DAEMON-006"} -> "daemon"
    [] r \in {"NET-002", "NET-003", "NET-004"} -> "network"

SeverityOrder == <<"CRITICAL", "HIGH", "MEDIUM", "LOW", "INFO">>
Severities == {SeverityOrder[i] : i \in DOMAIN SeverityOrder}
Rank(s) == CHOOSE i \in DOMAIN SeverityOrder : SeverityOrder[i] = s
Native(r) ==
  CASE r \in {"DAEMON-002", "DAEMON-006", "NET-004"} -> "HIGH"
    [] r \in {"COMPOSE-003", "NET-003"} -> "MEDIUM"
    [] r = "NET-002" -> "LOW"
-----------------------------------------------------------------------------
(* A file.  A name is what strip().upper() makes of the one written, so    *)
(* that two keys of the mapping may be the same name; "malformed" is what  *)
(* cannot be opened or is no YAML, has another shape or another key, and   *)
(* "fatal" what none of the handlers expects: bytes that are no text, a    *)
(* date that does not exist, other keys that cannot be sorted.             *)
Names == Rules \cup {"UNKNOWN"}
Values == Severities \cup {"unknown"}
RulesetFiles ==
  [text : {"mapping", "malformed", "fatal"}, disabled : SUBSET Names, severity : Seq(Names \X Values)]
NoRuleset == [text |-> "none", disabled |-> {}, severity |-> <<>>]

\* find_ruleset_file and its like: the first of the places, in their order, where there is one.
LastThere(places, none) ==
  IF \A i \in DOMAIN places : places[i] = none THEN none
  ELSE places[CHOOSE i \in DOMAIN places : places[i] # none /\ \A j \in (i + 1)..Len(places) : places[j] = none]
FirstThere(places, none) ==
  IF \A i \in DOMAIN places : places[i] = none THEN none
  ELSE places[CHOOSE i \in DOMAIN places : places[i] # none /\ \A j \in 1..(i - 1) : places[j] = none]

\* load_ruleset: one wrong entry and the whole file is refused.
NamesIn(file) == file.disabled \cup {file.severity[i][1] : i \in DOMAIN file.severity}
ValuesIn(file) == {file.severity[i][2] : i \in DOMAIN file.severity}
Lenient(file) == IF file.text = "fatal" THEN "crash" ELSE IF file.text = "malformed" THEN "error" ELSE "ok"
Verdict(file) ==
  IF file.text = "fatal" THEN "crash"
  ELSE IF file.text = "malformed" \/ ~(NamesIn(file) \subseteq Rules) \/ ~(ValuesIn(file) \subseteq Severities)
       THEN "error" ELSE "ok"

\* Of a name that is given twice the later entry counts.
FirstEntry(file, r) ==
  CHOOSE i \in DOMAIN file.severity : /\ file.severity[i][1] = r
                                      /\ \A j \in DOMAIN file.severity : file.severity[j][1] = r => i <= j
LastEntry(file, r) ==
  CHOOSE i \in DOMAIN file.severity : /\ file.severity[i][1] = r
                                      /\ \A j \in DOMAIN file.severity : file.severity[j][1] = r => j <= i
Overrides(file) ==
  [r \in {file.severity[i][1] : i \in DOMAIN file.severity} |-> file.severity[LastEntry(file, r)][2]]
=============================================================================
