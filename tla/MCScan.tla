-------------------------------- MODULE MCScan --------------------------------
(* Scans of a host with two containers, one network beside the special     *)
(* ones, and a compose file or two.                                        *)
EXTENDS Scan, TLC

CONSTANTS c1, c2, bridge, host, app

Boxed(s, ns, o) == [state |-> s, nets |-> ns, open |-> o]
New == Boxed("new", {}, FALSE)
At(a, b, n, u) ==
  [box |-> (c1 :> a) @@ (c2 :> b), net |-> (bridge :> "open") @@ (host :> "open") @@ (app :> n), userns |-> u]
MCHosts == {
  At(Boxed("running", {bridge}, FALSE), Boxed("running", {bridge, app}, FALSE), "closed", FALSE),
  At(Boxed("running", {app}, TRUE), Boxed("exited", {bridge}, FALSE), "open", TRUE),
  At(Boxed("running", {host}, FALSE), New, "new", TRUE)}

\* What a file says of a server: one without networks, one with two containers on a closed bridge.
MCFiles == {
  [box |-> (c1 :> Boxed("running", {bridge}, TRUE)) @@ (c2 :> Boxed("running", {bridge}, FALSE)),
   net |-> [n \in {bridge, host, app} |-> "new"], userns |-> FALSE],
  [box |-> (c1 :> Boxed("running", {bridge}, FALSE)) @@ (c2 :> Boxed("running", {bridge, app}, FALSE)),
   net |-> (bridge :> "closed") @@ (host :> "open") @@ (app :> "open"), userns |-> TRUE]}

Client(s, c, f) == [b \in Backends |-> IF b = "sdk" THEN s ELSE IF b = "cli" THEN c ELSE f]
MCClients ==
  {Client("ok", "ok", "missing"), Client("missing", "ok", "missing"), Client("denied", "missing", "missing"),
   Client("missing", "denied", "missing"), Client("missing", "missing", "missing")}
    \cup {Client("ok", "missing", f) : f \in {"ok", "malformed", "badItem", "fatal"}}

Daemon(s, n, i, u) == [state |-> s, nnp |-> n, icc |-> i, userns |-> u]
Default(s) == Daemon(s, FALSE, TRUE, FALSE)
Project(s) == [error |-> FALSE, services |-> s]
Broken == [error |-> TRUE, services |-> {}]
Service(n, o) == [nnp |-> n, open |-> o]

Ruleset(d, v) == [text |-> "mapping", disabled |-> d, severity |-> v]
Refused == [text |-> "malformed", disabled |-> {}, severity |-> <<>>]
OneOf(f) == <<NoRuleset, f, NoRuleset, Ruleset(Rules, <<>>)>>
Good == Daemon("ok", TRUE, TRUE, TRUE)

Plain == [category |-> {}, named |-> {}, missing |-> FALSE, ruleset |-> NoRuleset, rulesets |-> <<>>,
          daemons |-> <<NoDaemon, Good>>, deps |-> "none", failOn |-> "LOW", buggy |-> {},
          compose |-> <<Project({Service("unset", FALSE), Service("on", FALSE)}), Broken>>]

\* Live scans, scans of a snapshot, and those that end early.
MCCommands == {
  Plain,
  [Plain EXCEPT !.category = {"network"}, !.daemons = <<Daemon("ok", TRUE, FALSE, FALSE)>>, !.deps = "wrong",
                !.compose = <<Project({Service("off", TRUE)})>>, !.failOn = "MEDIUM"],
  [Plain EXCEPT !.daemons = <<>>, !.compose = <<>>, !.failOn = "HIGH", !.buggy = {"NET-002"},
                !.rulesets = OneOf(Ruleset({}, << <<"NET-003", "LOW">>, <<"DAEMON-002", "INFO">>,
                                                  <<"DAEMON-006", "LOW">>, <<"NET-003", "CRITICAL">> >>))],
  [Plain EXCEPT !.category = {"compose"}, !.named = {"compose", "deps"}, !.deps = "ok",
                !.daemons = <<Default("unusable"), Good>>,
                !.ruleset = Ruleset({"NET-003"}, << <<"COMPOSE-003", "CRITICAL">>, <<"NET-002", "CRITICAL">>,
                                                    <<"NET-004", "CRITICAL">> >>),
                !.rulesets = OneOf(Refused), !.failOn = "CRITICAL"],
  [Plain EXCEPT !.category = {"compose"}, !.failOn = "MEDIUM"],
  [Plain EXCEPT !.category = {"daemon"}, !.daemons = <<Default("ok"), Good>>, !.deps = "fatal"],
  [Plain EXCEPT !.category = {"daemon"}, !.daemons = <<Default("unusable")>>, !.failOn = "none"],
  [Plain EXCEPT !.category = {"network"}, !.named = {"snapshot"}],
  [Plain EXCEPT !.category = {"daemon"}, !.named = {"snapshot"}, !.failOn = "HIGH",
                !.rulesets = OneOf(Ruleset({"DAEMON-002"}, <<>>)), !.daemons = <<Daemon("ok", TRUE, FALSE, FALSE)>>],
  [Plain EXCEPT !.named = {"snapshot"}, !.deps = "fatal"],
  [Plain EXCEPT !.daemons = <<Default("binary")>>],
  [Plain EXCEPT !.rulesets = OneOf(Ruleset(Rules, <<>>))],
  [Plain EXCEPT !.missing = TRUE],
  [Plain EXCEPT !.rulesets = OneOf(Ruleset({"NET-004", "UNKNOWN"}, <<>>))],
  [Plain EXCEPT !.rulesets = OneOf(Ruleset({"NET-004"}, << <<"NET-002", "unknown">> >>))],
  [Plain EXCEPT !.ruleset = Refused],
  [Plain EXCEPT !.ruleset = [Refused EXCEPT !.text = "fatal"]]}
=============================================================================
