------------------------------ MODULE Scan_proofs ------------------------------
(* What Scan promises of findings, score and exit code, for any number of  *)
(* containers, networks, changes, files, options and rulesets.             *)
EXTENDS Scan, Collection_proofs, FiniteSetTheorems

Kinds == {"start", "daemon", "compose", "docker", "rules", "ended"}

\* What a rule that does not raise contributes.
Of(r) == {[rule |-> r, target |-> f.target, status |-> f.status, severity |-> SeverityOf(r)] : f \in Check(r, read)}

\* A scan that got as far as the rules, or through them.
Reported == stage = "ended" /\ code \in {"0", "1"} /\ setup.inputs = "ok" /\ Enabled # {}
Collected == stage = "rules" \/ Reported

\* What each stage leaves behind.
Before ==
  /\ stage \in {"start", "daemon", "compose", "docker"} => findings = {} /\ raised = {}
  /\ stage \in {"daemon", "compose", "docker", "rules"} => setup.inputs = "ok" /\ Enabled # {}
  /\ stage \in {"daemon", "compose", "docker"} => left = Enabled
  /\ stage = "ended" /\ setup.inputs = "ok" /\ Enabled = {} => findings = {} /\ raised = {} /\ code = "0"
DaemonRead == stage \in {"compose", "docker"} \/ Collected => "daemon" \in read
ComposeRead ==
  /\ stage = "docker" \/ Collected =>
       (setup.categories \cap {"compose", "network"} # {} => "compose" \in read /\ ComposeNotes \subseteq said)
DockerRead ==
  /\ stage = "docker" => "network" \in setup.categories
  /\ Collected /\ "network" \in setup.categories => "docker" \in read
  /\ "docker" \in read => /\ pc = "done" /\ (~answered => <<"docker", 0>> \in said)
                          /\ setup.deps = "wrong" => <<"deps", 0>> \in said
Ran ==
  /\ Collected => /\ left \subseteq Enabled
                  /\ raised = (Enabled \ left) \cap setup.buggy
                  /\ findings = UNION {Of(r) : r \in (Enabled \ left) \ setup.buggy}
  /\ Reported => left = {} /\ code = IF setup.failOn # "none" /\ Blocking # {} THEN "1" ELSE "0"

Flow ==
  /\ setup \in Setups /\ stage \in Kinds /\ left \subseteq Rules
  /\ Before /\ DaemonRead /\ ComposeRead /\ DockerRead /\ Ran
ScanInv == IInv /\ Lasting /\ Flow
-----------------------------------------------------------------------------
(* What a rule finds depends on the files, the options and the snapshot.   *)
LEMMA SameOptions ==
  ASSUME UNCHANGED setup
  PROVE  /\ Enabled' = Enabled /\ ComposeNotes' = ComposeNotes
         /\ \A r : SeverityOf(r)' = SeverityOf(r)
PROOF
BY DEF Enabled, ComposeNotes, Parsed, SeverityOf

LEMMA InputKinds == ASSUME setup \in Setups PROVE setup.inputs \in {"missing", "error", "crash", "ok"}
PROOF
BY DEF Setups, SetupOf, Verdict

LEMMA SameChecks ==
  ASSUME UNCHANGED <<setup, answered, got, gotnet, gotns, read>>
  PROVE  \A r : Of(r)' = Of(r)
PROOF
<1>1. RunningBoxes' = RunningBoxes /\ Parsed' = Parsed BY DEF RunningBoxes, Parsed
<1>2. Orphans' = Orphans /\ OnBridge' = OnBridge BY <1>1 DEF Orphans, OnBridge
<1>3. Usable(read)' = Usable(read) BY DEF Usable
<1>4. BridgeStatus(read)' = BridgeStatus(read) BY <1>2, <1>3 DEF BridgeStatus, IccDisabled
<1>5. ASSUME NEW r PROVE Check(r, read)' = Check(r, read)
  <2>1. ComposeCheck(read)' = ComposeCheck(read) BY <1>1, <1>3 DEF ComposeCheck, HasIssue
  <2>2. DaemonCheck(setup.daemon.nnp, read)' = DaemonCheck(setup.daemon.nnp, read) BY <1>3 DEF DaemonCheck
  <2>3. UsernsCheck(read)' = UsernsCheck(read) BY <1>3 DEF UsernsCheck, DaemonCheck
  <2>4. NetworkCheck(r, read)' = NetworkCheck(r, read) BY <1>1, <1>2, <1>4 DEF NetworkCheck
  <2> QED BY <2>1, <2>2, <2>3, <2>4 DEF Check
<1> QED BY <1>5, SameOptions DEF Of
-----------------------------------------------------------------------------
LEMMA FlowInit == Init => Flow
PROOF
<1> SUFFICES ASSUME Init PROVE Flow OBVIOUS
<1> USE DEF Init, Kinds
<1>1. Before /\ DaemonRead /\ ComposeRead /\ DockerRead /\ Ran
  BY DEF Before, DaemonRead, ComposeRead, DockerRead, Ran, Collected, Reported
<1> QED BY <1>1 DEF Flow

LEMMA BeginFlow == ASSUME Flow, Begin PROVE Flow'
PROOF
<1>0. /\ setup \in Setups /\ stage = "start" /\ left' = Enabled /\ findings = {} /\ raised = {}
      /\ UNCHANGED <<setup, read, said, findings, raised, pc, answered>>
  BY DEF Begin, Flow, Before, collection, reader
<1>1. /\ setup.inputs # "ok" => stage' = "ended" /\ code' \in {"2", "crash"}
      /\ setup.inputs = "ok" /\ Enabled = {} => stage' = "ended" /\ code' = "0"
      /\ setup.inputs = "ok" /\ Enabled # {} => stage' = "daemon"
  <2>1. setup.inputs \in {"missing", "error", "crash", "ok"} BY <1>0, InputKinds
  <2>2. CASE setup.inputs \in {"missing", "error"} BY <2>2 DEF Begin, EndWith
  <2>3. CASE setup.inputs = "crash" BY <2>3 DEF Begin, EndWith
  <2>4. CASE setup.inputs = "ok" BY <2>4 DEF Begin, EndWith
  <2> QED BY <2>1, <2>2, <2>3, <2>4
<1>2. Enabled' = Enabled BY <1>0, SameOptions
<1>3. ~Collected' BY <1>0, <1>1, <1>2 DEF Collected, Reported
<1>4. Before' BY <1>0, <1>1, <1>2 DEF Before
<1>5. DaemonRead' /\ ComposeRead' /\ DockerRead' /\ Ran'
  BY <1>0, <1>1, <1>3 DEF Flow, DaemonRead, ComposeRead, DockerRead, Ran, Collected
<1>6. left' \subseteq Rules BY <1>0 DEF Enabled
<1> QED BY <1>0, <1>1, <1>4, <1>5, <1>6 DEF Flow, Kinds

LEMMA DaemonFlow == ASSUME Flow, CollectDaemon PROVE Flow'
PROOF
<1>0. /\ stage = "daemon" /\ left = Enabled /\ findings = {} /\ raised = {}
      /\ UNCHANGED <<setup, left, findings, raised, pc, answered>>
      /\ setup.inputs = "ok" /\ Enabled # {}
  BY DEF CollectDaemon, Flow, Before, collection, reader
<1>1. \/ stage' = "ended" /\ code' = "crash" /\ UNCHANGED <<read, said>>
      \/ stage' = "compose" /\ read' = read \cup {"daemon"} /\ said \subseteq said'
  BY DEF CollectDaemon, EndWith
<1>2. Enabled' = Enabled BY <1>0, SameOptions
<1>3. ~Collected' BY <1>1 DEF Collected, Reported
<1>4. Before' BY <1>0, <1>1, <1>2 DEF Before
<1>5. DaemonRead' /\ ComposeRead' /\ DockerRead' /\ Ran'
  BY <1>0, <1>1, <1>3 DEF Flow, DaemonRead, ComposeRead, DockerRead, Ran, Collected
<1> QED BY <1>0, <1>1, <1>4, <1>5 DEF Flow, Kinds

LEMMA ComposeFlow == ASSUME Flow, CollectCompose PROVE Flow'
PROOF
<1>0. /\ stage = "compose" /\ left = Enabled /\ findings = {} /\ raised = {} /\ "daemon" \in read
      /\ UNCHANGED <<setup, left, findings, raised, code, pc, answered>>
      /\ setup.inputs = "ok" /\ Enabled # {}
  BY DEF CollectCompose, Flow, Before, DaemonRead, collection, reader
<1>1. stage' = IF "network" \in setup.categories THEN "docker" ELSE "rules" BY DEF CollectCompose
<1>2. /\ read \subseteq read' /\ said \subseteq said'
      /\ setup.categories \cap {"compose", "network"} # {} => "compose" \in read' /\ ComposeNotes \subseteq said'
      /\ "docker" \in read' => "docker" \in read
  BY DEF CollectCompose
<1>3. Enabled' = Enabled /\ ComposeNotes' = ComposeNotes BY <1>0, SameOptions
<1>4. Before' BY <1>0, <1>1, <1>3 DEF Before
<1>5. DaemonRead' /\ ComposeRead' BY <1>0, <1>1, <1>2, <1>3 DEF DaemonRead, ComposeRead
<1>6. DockerRead' BY <1>0, <1>1, <1>2 DEF Flow, DockerRead, Collected, Reported
<1>7. Ran'
  <2>1. (Enabled \ left)' = {} /\ left' \subseteq Enabled' BY <1>0, <1>3
  <2>2. UNION {Of(r)' : r \in ((Enabled \ left) \ setup.buggy)'} = {} BY <2>1
  <2>3. ~Reported' BY <1>1 DEF Reported
  <2> QED BY <1>0, <2>1, <2>2, <2>3 DEF Ran
<1> QED BY <1>0, <1>1, <1>4, <1>5, <1>6, <1>7 DEF Flow, Kinds

\* Docker may change, and be read, only until the reader is done.
LEMMA DockerFlow == ASSUME IInv, Flow, CollectDocker PROVE Flow'
PROOF
<1>0. stage = "docker" /\ UNCHANGED <<setup, stage, read, said, left, findings, raised, score, code>>
  BY DEF CollectDocker, scan
<1>1. pc # "done"
  <2>1. CollectTypeOK /\ Seen /\ Apart /\ CollectNext BY DEF IInv, CollectDocker
  <2>2. CASE ReadFile \/ Connect \/ List \/ ReadNetworks \/ NetworksRead \/ ReadInfo
    BY <2>2 DEF ReadFile, Connect, List, ReadNetworks, NetworksRead, ReadInfo
  <2>3. ASSUME NEW b, NEW n, NEW u, Change(b, n, u) PROVE pc # "done" BY <2>3 DEF Change, Calls
  <2>4. ASSUME NEW e, FailsTruly(e) PROVE pc # "done" BY <2>4 DEF FailsTruly, Calls
  <2>5. ASSUME NEW c, Inspected(c) \/ PassedOver(c) PROVE pc # "done" BY <2>5 DEF Inspected, PassedOver
  <2>6. ASSUME NEW n, FoundNetwork(n) PROVE pc # "done" BY <2>6 DEF FoundNetwork
  <2> QED BY <2>1, <2>2, <2>3, <2>4, <2>5, <2>6, StepKinds, CollectionAssumption
<1>2. Enabled' = Enabled /\ ComposeNotes' = ComposeNotes BY <1>0, SameOptions
<1>3. ~Collected /\ ~Collected' BY <1>0 DEF Collected, Reported
<1>4. "docker" \notin read BY <1>1 DEF Flow, DockerRead
<1>5. Before' BY <1>0, <1>2 DEF Flow, Before
<1>6. DaemonRead' /\ ComposeRead' BY <1>0, <1>2, <1>3 DEF Flow, DaemonRead, ComposeRead
<1>7. DockerRead' BY <1>0, <1>3, <1>4 DEF Flow, DockerRead
<1>8. Ran' BY <1>3 DEF Ran, Collected
<1> QED BY <1>0, <1>5, <1>6, <1>7, <1>8 DEF Flow

LEMMA CollectedFlow == ASSUME IInv, Flow, DockerCollected PROVE Flow'
PROOF
<1>0. /\ stage = "docker" /\ left = Enabled /\ findings = {} /\ raised = {} /\ "daemon" \in read
      /\ UNCHANGED <<setup, left, findings, raised, pc, answered>>
      /\ setup.inputs = "ok" /\ Enabled # {} /\ pc \in {"done", "crashed"}
  BY DEF DockerCollected, Flow, Before, DaemonRead, collection, reader
<1>2. Enabled' = Enabled /\ ComposeNotes' = ComposeNotes BY <1>0, SameOptions
<1>a. CASE stage' = "ended" /\ code' = "crash" /\ UNCHANGED <<read, said>>
  <2>1. ~Collected' BY <1>a DEF Collected, Reported
  <2>2. Before' BY <1>0, <1>2, <1>a DEF Before
  <2>3. DaemonRead' /\ ComposeRead' /\ DockerRead' /\ Ran'
    BY <1>0, <1>a, <2>1 DEF Flow, DaemonRead, ComposeRead, DockerRead, Ran, Collected
  <2> QED BY <1>0, <1>a, <2>2, <2>3 DEF Flow, Kinds
<1>b. CASE /\ pc = "done" /\ stage' = "rules" /\ code' = code /\ read' = read \cup {"docker"} /\ said \subseteq said'
           /\ ~answered => <<"docker", 0>> \in said'
           /\ setup.deps = "wrong" => <<"deps", 0>> \in said'
  <2>1. Before' BY <1>0, <1>2, <1>b DEF Before
  <2>2. DaemonRead' BY <1>0, <1>b DEF DaemonRead
  <2>3. ComposeRead' BY <1>0, <1>2, <1>b DEF Flow, ComposeRead
  <2>4. DockerRead' BY <1>0, <1>b DEF DockerRead
  <2>5. Ran'
    <3>1. (Enabled \ left)' = {} /\ left' \subseteq Enabled' BY <1>0, <1>2
    <3>2. UNION {Of(r)' : r \in ((Enabled \ left) \ setup.buggy)'} = {} BY <3>1
    <3>3. ~Reported' BY <1>b DEF Reported
    <3> QED BY <1>0, <3>1, <3>2, <3>3 DEF Ran
  <2> QED BY <1>0, <1>b, <2>1, <2>2, <2>3, <2>4, <2>5 DEF Flow, Kinds
<1> QED BY <1>a, <1>b DEF DockerCollected, Announced, EndWith

LEMMA FailedFlow == ASSUME Flow, ReportFails PROVE Flow'
PROOF
<1>0. /\ stage = "rules" /\ stage' = "ended" /\ code' \in {"pipe", "crash"}
      /\ UNCHANGED <<setup, read, said, left, findings, raised, pc, answered>>
      /\ setup.inputs = "ok" /\ Enabled # {}
  BY DEF ReportFails, EndWith, Flow, Before, collection, reader
<1>1. Enabled' = Enabled BY <1>0, SameOptions
<1>2. ~Collected' BY <1>0 DEF Collected, Reported
<1>3. Before' BY <1>0, <1>1 DEF Before
<1>4. DaemonRead' /\ ComposeRead' /\ DockerRead' /\ Ran'
  BY <1>0, <1>2 DEF Flow, DaemonRead, ComposeRead, DockerRead, Ran, Collected
<1> QED BY <1>0, <1>3, <1>4 DEF Flow, Kinds

LEMMA RuleFlow == ASSUME Flow, NEW r \in Rules, RunRule(r) PROVE Flow'
PROOF
<1>0. /\ stage = "rules" /\ r \in left /\ left' = left \ {r} /\ left \subseteq Rules
      /\ UNCHANGED <<setup, stage, read, said, code, pc, answered, got, gotnet, gotns>>
  BY DEF RunRule, Flow, collection, reader
<1>a. IF r \in setup.buggy THEN raised' = raised \cup {r} /\ findings' = findings
      ELSE raised' = raised /\ findings' = findings \cup Of(r)
  BY DEF RunRule, Of
<1>1. Collected /\ Collected' /\ ~Reported' BY <1>0 DEF Collected, Reported
<1>2. /\ Enabled' = Enabled /\ ComposeNotes' = ComposeNotes
      /\ \A q : Of(q)' = Of(q)
  BY <1>0, SameOptions, SameChecks
<1>3. Before' BY <1>0, <1>2 DEF Flow, Before
<1>4. DaemonRead' /\ ComposeRead' /\ DockerRead'
  BY <1>0, <1>1, <1>2 DEF Flow, DaemonRead, ComposeRead, DockerRead
<1>5. Ran'
  <2>1. raised = (Enabled \ left) \cap setup.buggy /\ findings = UNION {Of(q) : q \in (Enabled \ left) \ setup.buggy}
    BY <1>1 DEF Flow, Ran
  <2>2. r \in Enabled /\ left' \subseteq Enabled BY <1>0, <1>1 DEF Flow, Ran
  <2>3. Enabled \ left' = (Enabled \ left) \cup {r} BY <1>0, <2>2
  <2>4. raised' = (Enabled \ left') \cap setup.buggy BY <1>a, <2>1, <2>3
  <2>5. findings' = UNION {Of(q) : q \in (Enabled \ left') \ setup.buggy} BY <1>a, <2>1, <2>3
  <2>6. UNION {Of(q)' : q \in (Enabled \ left') \ setup.buggy} = UNION {Of(q) : q \in (Enabled \ left') \ setup.buggy}
    BY <1>2
  <2> QED BY <1>0, <1>1, <1>2, <2>2, <2>4, <2>5, <2>6 DEF Ran
<1> QED BY <1>0, <1>3, <1>4, <1>5 DEF Flow, Kinds

LEMMA ReportFlow == ASSUME Flow, Report PROVE Flow'
PROOF
<1>0. /\ stage = "rules" /\ left = {} /\ stage' = "ended"
      /\ code' = IF setup.failOn # "none" /\ Blocking # {} THEN "1" ELSE "0"
      /\ UNCHANGED <<setup, read, said, left, findings, raised, pc, answered, got, gotnet, gotns>>
      /\ setup.inputs = "ok" /\ Enabled # {}
  BY DEF Report, EndWith, Flow, Before, collection, reader
<1>1. /\ Enabled' = Enabled /\ ComposeNotes' = ComposeNotes
      /\ \A q : Of(q)' = Of(q)
  BY <1>0, SameOptions, SameChecks
<1>2. Collected /\ Collected' BY <1>0, <1>1 DEF Collected, Reported
<1>3. Before' BY <1>0, <1>1 DEF Before
<1>4. DaemonRead' /\ ComposeRead' /\ DockerRead'
  BY <1>0, <1>1, <1>2 DEF Flow, DaemonRead, ComposeRead, DockerRead
<1>5. Ran'
  <2>1. Blocking' = Blocking
    <3>1. Failed' = Failed BY <1>0 DEF Failed
    <3> QED BY <1>0, <3>1 DEF Blocking
  <2>2. findings = UNION {Of(q) : q \in (Enabled \ left) \ setup.buggy} BY <1>2 DEF Flow, Ran
  <2>3. UNION {Of(q)' : q \in (Enabled \ left) \ setup.buggy} = UNION {Of(q) : q \in (Enabled \ left) \ setup.buggy}
    BY <1>1
  <2> QED BY <1>0, <1>1, <1>2, <2>1, <2>2, <2>3 DEF Flow, Ran
<1> QED BY <1>0, <1>3, <1>4, <1>5 DEF Flow, Kinds

LEMMA ScanInvHolds == Spec => []ScanInv
PROOF
<1>1. Init => ScanInv BY FlowInit, InitHolds, LastingInit, CollectionAssumption DEF Init, ScanInv
<1>2. ScanInv /\ [Next]_vars => ScanInv'
  <2> SUFFICES ASSUME ScanInv, [Next]_vars PROVE ScanInv' OBVIOUS
  <2>0. IInv /\ CollectTypeOK /\ Seen /\ Apart /\ Lasting /\ Flow BY DEF ScanInv, IInv
  <2>a. ASSUME UNCHANGED collection PROVE IInv' /\ Lasting'
    <3>1. UNCHANGED <<box, net, up, userns, events, client, backend, pc, todo, ntodo, got, gotnet, gotns, errors,
                      answered, was, netwas, sawDown>>
      BY <2>a DEF collection, docker, reader, history
    <3>2. CollectTypeOK' BY <2>0, <3>1 DEF CollectTypeOK
    <3>3. Seen' /\ Genuine' /\ Whole' /\ Apart' /\ Told'
      BY <2>0, <3>1 DEF IInv, Seen, Genuine, Whole, Apart, Told, True
    <3>4. Lasting' BY <2>0, <3>1 DEF Lasting
    <3> QED BY <3>2, <3>3, <3>4 DEF IInv
  <2>1. CASE Begin BY <2>0, <2>1, <2>a, BeginFlow DEF Begin, ScanInv
  <2>2. CASE CollectDaemon BY <2>0, <2>2, <2>a, DaemonFlow DEF CollectDaemon, ScanInv
  <2>3. CASE CollectCompose BY <2>0, <2>3, <2>a, ComposeFlow DEF CollectCompose, ScanInv
  <2>4. CASE CollectDocker
    <3>1. CollectNext BY <2>4 DEF CollectDocker
    <3>2. IInv'
      BY <2>0, <3>1, StepKinds, ChangeKeeps, FailKeeps, CallKeeps, CollectionAssumption
    <3>3. Lasting' BY <2>0, <3>1, LastingKept, CollectionAssumption
    <3> QED BY <2>0, <2>4, <3>2, <3>3, DockerFlow DEF ScanInv
  <2>5. CASE DockerCollected BY <2>0, <2>5, <2>a, CollectedFlow DEF DockerCollected, ScanInv
  <2>6. ASSUME NEW r \in Rules, RunRule(r) PROVE ScanInv'
    BY <2>0, <2>6, <2>a, RuleFlow DEF RunRule, ScanInv
  <2>7. CASE Report BY <2>0, <2>7, <2>a, ReportFlow DEF Report, ScanInv
  <2>9. CASE ReportFails BY <2>0, <2>9, <2>a, FailedFlow DEF ReportFails, ScanInv
  <2>8. CASE UNCHANGED vars
    <3>1. UNCHANGED collection /\ UNCHANGED <<setup, stage, read, said, left, findings, raised, code>>
      BY <2>8 DEF vars, scan
    <3>2. UNCHANGED <<pc, answered, got, gotnet, gotns>> BY <3>1 DEF collection, reader
    <3>3. /\ Enabled' = Enabled /\ ComposeNotes' = ComposeNotes
          /\ \A q : Of(q)' = Of(q)
      BY <3>1, <3>2, SameOptions, SameChecks
    <3>4. (Collected' <=> Collected) /\ (Reported' <=> Reported) BY <3>1, <3>3 DEF Collected, Reported
    <3>5. Before' /\ DaemonRead' /\ ComposeRead' /\ DockerRead'
      BY <2>0, <3>1, <3>2, <3>3, <3>4 DEF Flow, Before, DaemonRead, ComposeRead, DockerRead
    <3>6. Blocking' = Blocking
      <4>1. Failed' = Failed BY <3>1 DEF Failed
      <4> QED BY <3>1, <4>1 DEF Blocking
    <3>7. UNION {Of(q)' : q \in (Enabled \ left) \ setup.buggy} = UNION {Of(q) : q \in (Enabled \ left) \ setup.buggy}
      BY <3>3
    <3>8. Ran' BY <2>0, <3>1, <3>3, <3>4, <3>6, <3>7 DEF Flow, Ran
    <3>9. Flow' BY <2>0, <3>1, <3>5, <3>8 DEF Flow
    <3> QED BY <3>1, <3>9, <2>a DEF ScanInv
  <2> QED BY <2>1, <2>2, <2>3, <2>4, <2>5, <2>6, <2>7, <2>8, <2>9 DEF Next
<1> QED BY <1>1, <1>2, PTL DEF Spec
-----------------------------------------------------------------------------
(* The six rules, by category.                                             *)
LEMMA RuleKinds ==
  ASSUME NEW r \in Rules
  PROVE  /\ r \in {"COMPOSE-003", "DAEMON-002", "DAEMON-006", "NET-002", "NET-003", "NET-004"}
         /\ CategoryOf(r) = IF r = "COMPOSE-003" THEN "compose"
                            ELSE IF r \in {"DAEMON-002", "DAEMON-006"} THEN "daemon" ELSE "network"
PROOF
<1>1. r \in {"COMPOSE-003", "DAEMON-002", "DAEMON-006", "NET-002", "NET-003", "NET-004"}
  <2>1. DOMAIN RuleOrder = 1..6 BY DEF RuleOrder
  <2> QED BY <2>1 DEF Rules, RuleOrder
<1> QED BY <1>1 DEF CategoryOf

LEMMA CheckOf ==
  ASSUME NEW r \in Rules, NEW k
  PROVE  Check(r, k) = IF r = "COMPOSE-003" THEN ComposeCheck(k)
                       ELSE IF r = "DAEMON-002" THEN DaemonCheck(setup.daemon.nnp, k)
                       ELSE IF r = "DAEMON-006" THEN UsernsCheck(k)
                       ELSE NetworkCheck(r, k)
PROOF
BY RuleKinds DEF Check

ExposedIn(i) == FailIf(\E s \in setup.compose[i].services : s.open)

LEMMA NetworkOf ==
  ASSUME NEW r \in {"NET-002", "NET-003", "NET-004"}, NEW k
  PROVE  /\ "docker" \notin k => NetworkCheck(r, k) = {}
         /\ "docker" \in k /\ answered =>
              /\ r = "NET-002" => NetworkCheck(r, k) = {On(OwnTarget, FailIf(Orphans # {}))}
              /\ r = "NET-003" => NetworkCheck(r, k) = {On(OwnTarget, BridgeStatus(k))}
              /\ r = "NET-004" => NetworkCheck(r, k) = {On(OwnTarget, FailIf(\E c \in RunningBoxes : got[c].open))}
         /\ "docker" \in k /\ ~answered =>
              /\ r = "NET-004" /\ "compose" \in k /\ Parsed # {} =>
                   NetworkCheck(r, k) = {On(i, ExposedIn(i)) : i \in Parsed}
              /\ ~(r = "NET-004" /\ "compose" \in k /\ Parsed # {}) => NetworkCheck(r, k) = {On(OwnTarget, "SKIP")}
PROOF
<1>1. CASE "docker" \notin k BY <1>1 DEF NetworkCheck
<1>2. CASE "docker" \in k /\ answered
  <2>1. CASE r = "NET-002" BY <1>2, <2>1 DEF NetworkCheck
  <2>2. CASE r = "NET-003" BY <1>2, <2>2 DEF NetworkCheck
  <2>3. CASE r = "NET-004" BY <1>2, <2>3 DEF NetworkCheck
  <2> QED BY <1>2, <2>1, <2>2, <2>3
<1>3. CASE "docker" \in k /\ ~answered BY <1>3 DEF NetworkCheck, ExposedIn, Skipped
<1> QED BY <1>1, <1>2, <1>3

LEMMA ChecksAreRecords ==
  ASSUME NEW r \in Rules, NEW k, NEW f \in Check(r, k)
  PROVE  f = On(f.target, f.status)
PROOF
<1>0. \A t, x : On(t, x) = On(On(t, x).target, On(t, x).status) BY DEF On
<1>1. CASE r = "COMPOSE-003"
  <2>1. f \in ComposeCheck(k) BY <1>1, CheckOf
  <2>2. PICK i \in Parsed : f = On(i, FailIf(\E s \in setup.compose[i].services : HasIssue(s, k)))
    BY <2>1 DEF ComposeCheck
  <2> QED BY <1>0, <2>2
<1>d. ASSUME NEW v, f \in DaemonCheck(v, k) PROVE f = On(f.target, f.status) BY <1>0, <1>d DEF DaemonCheck, Skipped
<1>2. CASE r = "DAEMON-002" BY <1>d, <1>2, CheckOf
<1>3. CASE r = "DAEMON-006"
  <2>1. f \in UsernsCheck(k) BY <1>3, CheckOf
  <2> QED BY <1>0, <1>d, <2>1 DEF UsernsCheck
<1>4. CASE r \in {"NET-002", "NET-003", "NET-004"}
  <2>a. f \in NetworkCheck(r, k) BY <1>4, CheckOf
  <2>0. f \in NetworkCheck(r, k) /\ "docker" \in k BY <1>4, <2>a, NetworkOf
  <2>1. CASE answered
    <3>1. \E x : NetworkCheck(r, k) = {On(OwnTarget, x)} BY <1>4, <2>0, <2>1, NetworkOf
    <3> QED BY <1>0, <2>0, <3>1
  <2>2. CASE ~answered /\ r = "NET-004" /\ "compose" \in k /\ Parsed # {}
    <3>1. f \in {On(i, ExposedIn(i)) : i \in Parsed}
      BY <1>4, <2>0, <2>2, NetworkOf
    <3>2. PICK i \in Parsed : f = On(i, ExposedIn(i)) BY <3>1
    <3> QED BY <1>0, <3>2
  <2>3. CASE ~answered /\ ~(r = "NET-004" /\ "compose" \in k /\ Parsed # {})
    <3>1. f = On(OwnTarget, "SKIP") BY <1>4, <2>0, <2>3, NetworkOf
    <3> QED BY <1>0, <3>1
  <2> QED BY <2>1, <2>2, <2>3
<1> QED BY <1>1, <1>2, <1>3, <1>4, RuleKinds

\* What a rule needs of the context has been collected if its category was selected.
Needs(r) ==
  /\ "daemon" \in read
  /\ CategoryOf(r) \in {"compose", "network"} => "compose" \in read
  /\ CategoryOf(r) = "network" => "docker" \in read

LEMMA Provided ==
  ASSUME Flow, Collected, NEW r \in Enabled
  PROVE  r \in Rules /\ Needs(r)
PROOF
BY DEF Flow, DaemonRead, ComposeRead, DockerRead, Enabled, Needs

LEMMA AllTheSame ==
  ASSUME NEW r \in Rules, r # "DAEMON-006", Needs(r)
  PROVE  Check(r, read) = Check(r, All)
PROOF
<1>1. Usable(read) = Usable(All) BY DEF Usable, Needs, All
<1>2. "daemon" \in All /\ "compose" \in All /\ "docker" \in All BY DEF All
<1>3. CASE r = "COMPOSE-003"
  <2>1. "compose" \in read BY <1>3, RuleKinds DEF Needs
  <2>2. ComposeCheck(read) = ComposeCheck(All) BY <1>1, <1>2, <2>1 DEF ComposeCheck, HasIssue
  <2> QED BY <1>3, <2>2, CheckOf
<1>4. CASE r = "DAEMON-002"
  <2>1. DaemonCheck(setup.daemon.nnp, read) = DaemonCheck(setup.daemon.nnp, All) BY <1>1 DEF DaemonCheck
  <2> QED BY <1>4, <2>1, CheckOf
<1>5. CASE r \in {"NET-002", "NET-003", "NET-004"}
  <2>1. "compose" \in read /\ "docker" \in read BY <1>5, RuleKinds DEF Needs
  <2>2. BridgeStatus(read) = BridgeStatus(All) BY <1>1 DEF BridgeStatus, IccDisabled
  <2>3. NetworkCheck(r, read) = NetworkCheck(r, All)
    <3>1. CASE answered BY <1>2, <1>5, <2>1, <2>2, <3>1, NetworkOf
    <3>2. CASE ~answered /\ r = "NET-004" /\ Parsed # {} BY <1>2, <1>5, <2>1, <3>2, NetworkOf
    <3>3. CASE ~answered /\ ~(r = "NET-004" /\ Parsed # {}) BY <1>2, <1>5, <2>1, <3>3, NetworkOf
    <3> QED BY <3>1, <3>2, <3>3
  <2> QED BY <1>5, <2>3, CheckOf
<1> QED BY <1>3, <1>4, <1>5, RuleKinds

LEMMA NeverNothing ==
  ASSUME NEW r \in Rules, Needs(r), CategoryOf(r) # "compose"
  PROVE  Check(r, read) # {}
PROOF
<1>1. CASE r = "DAEMON-002" BY <1>1, CheckOf DEF DaemonCheck, Skipped
<1>2. CASE r = "DAEMON-006" BY <1>2, CheckOf DEF UsernsCheck, DaemonCheck, Skipped
<1>3. CASE r \in {"NET-002", "NET-003", "NET-004"}
  <2>1. "docker" \in read BY <1>3, RuleKinds DEF Needs
  <2>2. Check(r, read) = NetworkCheck(r, read) BY <1>3, CheckOf
  <2>3. CASE answered
    <3>1. \E x : NetworkCheck(r, read) = {x} BY <1>3, <2>1, <2>3, NetworkOf
    <3> QED BY <2>2, <3>1
  <2>4. CASE ~answered /\ r = "NET-004" /\ "compose" \in read /\ Parsed # {}
    <3>1. PICK i : i \in Parsed BY <2>4
    <3>2. NetworkCheck(r, read) = {On(j, ExposedIn(j)) : j \in Parsed} BY <1>3, <2>1, <2>4, NetworkOf
    <3>3. On(i, ExposedIn(i)) \in {On(j, ExposedIn(j)) : j \in Parsed} BY <3>1
    <3> QED BY <2>2, <3>2, <3>3
  <2>5. CASE ~answered /\ ~(r = "NET-004" /\ "compose" \in read /\ Parsed # {})
    <3>1. NetworkCheck(r, read) = {On(OwnTarget, "SKIP")} BY <1>3, <2>1, <2>5, NetworkOf
    <3> QED BY <2>2, <3>1
  <2> QED BY <2>3, <2>4, <2>5
<1> QED BY <1>1, <1>2, <1>3, RuleKinds

(* The findings of a rule, once the scan has ended.                        *)
LEMMA FindingsOf ==
  ASSUME Flow, Reported, NEW r \in Enabled
  PROVE  /\ r \in raised <=> r \in setup.buggy
         /\ {g \in findings : g.rule = r} = IF r \in setup.buggy THEN {} ELSE Of(r)
PROOF
<1>1. /\ left = {} /\ raised = Enabled \cap setup.buggy
      /\ findings = UNION {Of(q) : q \in Enabled \ setup.buggy}
  BY DEF Flow, Ran, Collected
<1>2. \A q : \A g \in Of(q) : g.rule = q BY DEF Of
<1>3. {g \in findings : g.rule = r} = IF r \in setup.buggy THEN {} ELSE Of(r) BY <1>1, <1>2
<1> QED BY <1>1, <1>3

LEMMA EndedKinds ==
  ASSUME Flow, Ended
  PROVE  Reported \/ (Enabled = {} /\ findings = {} /\ raised = {} /\ code = "0")
PROOF
BY DEF Flow, Before, Ended, Reported

(* What a rule finds depends neither on what else was selected nor on      *)
(* other rules that raise, for every host, files, options and ruleset.     *)
THEOREM SelectionNeutralHolds == Spec => []SelectionNeutral
PROOF
<1>1. ScanInv => SelectionNeutral
  <2> SUFFICES ASSUME ScanInv, Ended, NEW r \in Enabled \ {"DAEMON-006"}
               PROVE  {On(f.target, f.status) : f \in {g \in findings : g.rule = r}} =
                        IF r \in setup.buggy THEN {} ELSE Check(r, All)
    BY DEF SelectionNeutral
  <2>0. Flow BY DEF ScanInv
  <2>1. Reported BY <2>0, EndedKinds
  <2>2. r \in Rules /\ Needs(r) BY <2>0, <2>1, Provided DEF Collected
  <2>3. Check(r, read) = Check(r, All) BY <2>2, AllTheSame
  <2>4. {On(f.target, f.status) : f \in Of(r)} = Check(r, read)
    <3> DEFINE G(f) == [rule |-> r, target |-> f.target, status |-> f.status, severity |-> SeverityOf(r)]
    <3>1. \A f \in Check(r, read) : f = On(G(f).target, G(f).status)
      <4>1. \A f : G(f).target = f.target /\ G(f).status = f.status OBVIOUS
      <4> QED BY <2>2, <4>1, ChecksAreRecords
    <3>2. Of(r) = {G(f) : f \in Check(r, read)} BY DEF Of
    <3> HIDE DEF G
    <3>3. {On(g.target, g.status) : g \in {G(f) : f \in Check(r, read)}} = Check(r, read) BY <3>1
    <3> QED BY <3>2, <3>3
  <2> QED BY <2>0, <2>1, <2>3, <2>4, FindingsOf
<1> QED BY <1>1, ScanInvHolds, PTL

LEMMA BecomesFinding ==
  ASSUME Flow, Reported, NEW r \in Enabled \ setup.buggy, NEW x \in Check(r, read)
  PROVE  \E f \in findings : f.rule = r /\ f.target = x.target /\ f.status = x.status /\ f.severity = SeverityOf(r)
PROOF
<1> DEFINE f == [rule |-> r, target |-> x.target, status |-> x.status, severity |-> SeverityOf(r)]
<1>1. f \in Of(r) BY DEF Of
<1>2. Of(r) = {g \in findings : g.rule = r} BY FindingsOf
<1>3. f.rule = r /\ f.target = x.target /\ f.status = x.status /\ f.severity = SeverityOf(r) OBVIOUS
<1> HIDE DEF f
<1> QED BY <1>1, <1>2, <1>3

LEMMA IsFinding ==
  ASSUME Flow, Reported, NEW f \in findings
  PROVE  /\ f.rule \in Enabled \ setup.buggy /\ f.severity = SeverityOf(f.rule)
         /\ \E x \in Check(f.rule, read) : x.status = f.status
PROOF
<1>1. PICK r \in Enabled \ setup.buggy : f \in Of(r) BY DEF Flow, Ran, Collected
<1>2. PICK x \in Check(r, read) :
        f = [rule |-> r, target |-> x.target, status |-> x.status, severity |-> SeverityOf(r)]
  BY <1>1 DEF Of
<1>3. f.rule = r /\ f.status = x.status /\ f.severity = SeverityOf(r) BY <1>2
<1> QED BY <1>2, <1>3

(* Of every rule asked for and every compose file there is a finding, an   *)
(* error or the reason why not; a Docker that did not answer is named.     *)
THEOREM AccountedHolds == Spec => []Accounted
PROOF
<1>1. ScanInv => Accounted
  <2> SUFFICES ASSUME ScanInv, Ended PROVE Accounted BY DEF Accounted
  <2>0. Flow /\ setup \in Setups BY DEF ScanInv, Flow
  <2>2. CASE Enabled = {} BY <2>2 DEF Accounted
  <2>3. CASE Reported
    <3>a. "network" \in setup.categories => /\ ~answered => <<"docker", 0>> \in said
                                            /\ setup.deps = "wrong" => <<"deps", 0>> \in said
      BY <2>0, <2>3 DEF Flow, DockerRead, Collected
    <3>1. ASSUME NEW r \in Enabled
          PROVE  r \in Rules /\ Needs(r) /\ (r \in raised <=> r \in setup.buggy)
      BY <2>0, <2>3, Provided, FindingsOf DEF Collected
    <3>2. ASSUME NEW r \in Enabled, CategoryOf(r) = "compose"
          PROVE  /\ r \in Rules /\ Check(r, read) = ComposeCheck(read) /\ "compose" \in read
                 /\ "compose" \in setup.categories
      <4>1. r = "COMPOSE-003" BY <3>1, <3>2, RuleKinds
      <4> QED BY <3>1, <3>2, <4>1, CheckOf DEF Needs, Enabled
    <3>3. "compose" \in setup.categories => ComposeNotes \subseteq said
      BY <2>0, <2>3 DEF Flow, ComposeRead, Collected
    <3>4. ASSUME NEW r \in Enabled \ setup.buggy, CategoryOf(r) = "compose", NEW i \in Parsed
          PROVE  \E f \in findings : f.rule = r /\ f.target = i
      <4> DEFINE x == On(i, FailIf(\E s \in setup.compose[i].services : HasIssue(s, read)))
      <4>1. x \in Check(r, read)
        <5>1. x \in ComposeCheck(read) BY <3>2, <3>4 DEF ComposeCheck
        <5> QED BY <3>2, <3>4, <5>1
      <4>2. x.target = i BY DEF On
      <4> HIDE DEF x
      <4> QED BY <2>0, <2>3, <4>1, <4>2, BecomesFinding
    <3>5. ASSUME NEW i \in DOMAIN setup.compose, i \notin Parsed, "compose" \in setup.categories
          PROVE  <<"compose", i>> \in said
      <4>1. <<"compose", i>> \in ComposeNotes BY <3>5 DEF ComposeNotes
      <4> QED BY <3>3, <3>5, <4>1
    <3>6. ASSUME NEW r \in Enabled, r \notin raised
          PROVE  \/ \E f \in findings : f.rule = r
                 \/ CategoryOf(r) = "compose" /\ \E n \in said : n[1] \in {"noCompose", "compose"}
      <4>0. r \notin setup.buggy BY <3>1, <3>6
      <4>1. CASE CategoryOf(r) # "compose"
        <5>1. PICK x \in Check(r, read) : TRUE BY <3>1, <4>1, NeverNothing
        <5> QED BY <2>0, <2>3, <4>0, <5>1, BecomesFinding
      <4>2. CASE CategoryOf(r) = "compose" /\ Parsed # {} BY <3>4, <4>0, <4>2
      <4>3. CASE CategoryOf(r) = "compose" /\ Parsed = {}
        <5>0. "compose" \in setup.categories BY <3>2, <4>3
        <5>1. CASE setup.compose = <<>>
          <6>1. <<"noCompose", 0>> \in ComposeNotes BY <5>0, <5>1 DEF ComposeNotes, Announced
          <6> QED BY <3>3, <4>3, <5>0, <6>1
        <5>2. CASE setup.compose # <<>>
          <6>1. setup.compose \in Seq(Projects) BY <2>0, ScanAssumption DEF Setups, SetupOf
          <6>2. 1 \in DOMAIN setup.compose BY <5>2, <6>1
          <6>3. <<"compose", 1>> \in said BY <3>5, <4>3, <5>0, <6>2
          <6> QED BY <4>3, <6>3
        <5> QED BY <5>1, <5>2
      <4> QED BY <4>1, <4>2, <4>3
    <3>7. ASSUME "compose" \in setup.categories, NEW i \in DOMAIN setup.compose
          PROVE  \/ <<"compose", i>> \in said
                 \/ \A r \in Enabled : CategoryOf(r) # "compose" \/ r \in raised
                                       \/ \E f \in findings : f.rule = r /\ f.target = i
      BY <3>1, <3>4, <3>5, <3>7
    <3> QED BY <3>a, <3>6, <3>7 DEF Accounted
  <2> QED BY <2>0, <2>2, <2>3, EndedKinds
<1> QED BY <1>1, ScanInvHolds, PTL
-----------------------------------------------------------------------------
(* The snapshot and the host.                                              *)
LEMMA SnapshotTrue ==
  ASSUME IInv, Lasting, CollectionAssumption, answered
  PROVE  /\ DOMAIN got \subseteq Containers /\ \A c \in DOMAIN got : got[c] \in was[c]
         /\ \A c \in Containers : (\A b \in was[c] : Present(b)) => c \in DOMAIN got
         /\ IF Bridge \in DOMAIN gotnet THEN gotnet[Bridge] \in netwas[Bridge]
                                        ELSE netwas[Bridge] # {"closed"}
PROOF
<1>1. NothingInvented /\ NothingMissed
  <2>1. NothingInvented BY DEF IInv, Genuine, NothingInvented
  <2>2. todo = {} /\ ntodo = {} BY DEF IInv, Whole
  <2>3. /\ \A c \in Containers : (\A b \in was[c] : Present(b)) => c \in DOMAIN got
        /\ \A n \in Networks : (\A x \in netwas[n] : Existing(x)) => n \in DOMAIN gotnet
    BY <2>2 DEF IInv, Whole
  <2> QED BY <2>1, <2>3 DEF NothingMissed
<1>2. Bridge \notin DOMAIN gotnet => netwas[Bridge] # {"closed"}
  <2>1. Bridge \in Networks BY DEF CollectionAssumption
  <2> QED BY <1>1, <2>1 DEF NothingMissed, Existing
<1> QED BY <1>1, <1>2 DEF NothingInvented, NothingMissed, IInv, CollectTypeOK

\* The rules' predicates on a container that was read.
LEMMA OnContainers ==
  /\ \A c : c \in Orphans <=> c \in DOMAIN got /\ Orphan(got[c])
  /\ \A c : c \in OnBridge <=> c \in DOMAIN got /\ Bridged(got[c])
  /\ \A c : (c \in RunningBoxes /\ got[c].open) <=> c \in DOMAIN got /\ Exposed(got[c])
PROOF
BY DEF Orphans, OnBridge, RunningBoxes, Orphan, Bridged, Exposed, Up

\* All that holds all the while of a running container holds of what was read of it.
LEMMA AlwaysRead ==
  ASSUME IInv, Lasting, CollectionAssumption, answered, NEW c \in Containers
  PROVE  /\ Always(c, Orphan) => c \in DOMAIN got /\ Orphan(got[c])
         /\ Always(c, Bridged) => c \in DOMAIN got /\ Bridged(got[c])
         /\ Always(c, Exposed) => c \in DOMAIN got /\ Exposed(got[c])
PROOF
<1>1. \A b : Up(b) => Present(b) BY DEF Up, Present
<1>2. (\A b \in was[c] : Up(b)) => c \in DOMAIN got /\ got[c] \in was[c] BY <1>1, SnapshotTrue
<1>3. Always(c, Orphan) => c \in DOMAIN got /\ Orphan(got[c]) BY <1>2 DEF Always, Orphan
<1>4. Always(c, Bridged) => c \in DOMAIN got /\ Bridged(got[c]) BY <1>2 DEF Always, Bridged
<1>5. Always(c, Exposed) => c \in DOMAIN got /\ Exposed(got[c]) BY <1>2 DEF Always, Exposed
<1> QED BY <1>3, <1>4, <1>5

\* With what a rule needs collected, daemon.json is used if it is usable.
LEMMA UsableRead ==
  ASSUME NEW r \in Rules, Needs(r)
  PROVE  (Usable(read) <=> setup.daemon.state # "unusable") /\ (IccOff <=> Usable(read) /\ ~setup.daemon.icc)
PROOF
BY DEF Needs, Usable, IccOff

LEMMA FailIfs == \A b : (b => FailIf(b) = "FAIL") /\ (FailIf(b) = "FAIL" => b)
PROOF
BY DEF FailIf

(* What is certain is found.                                               *)
LEMMA CertainFails ==
  ASSUME ScanInv, Collected, NEW r \in Enabled, Certain(r)
  PROVE  \E x \in Check(r, read) : x.status = "FAIL"
PROOF
<1>0. IInv /\ Lasting /\ Flow /\ r \in Rules /\ Needs(r) BY Provided DEF ScanInv
<1>a. \A t, v : On(t, v).status = v BY DEF On
<1>u. (Usable(read) <=> setup.daemon.state # "unusable") /\ (IccOff <=> Usable(read) /\ ~setup.daemon.icc)
  BY <1>0, UsableRead
<1>1. CASE r = "DAEMON-002"
  <2>1. Usable(read) /\ ~setup.daemon.nnp BY <1>1, <1>u DEF Certain, Insecure
  <2>2. DaemonCheck(setup.daemon.nnp, read) = {On(OwnTarget, "FAIL")} BY <2>1 DEF DaemonCheck, FailIf
  <2> QED BY <1>0, <1>1, <1>a, <2>2, CheckOf
<1>2. CASE r = "DAEMON-006"
  <2>1. Usable(read) /\ ~setup.daemon.userns /\ ~userns BY <1>2, <1>u DEF Certain, Insecure
  <2>2. ~gotns BY <1>0, <2>1 DEF Lasting
  <2>3. UsernsCheck(read) = {On(OwnTarget, "FAIL")} BY <2>1, <2>2 DEF UsernsCheck, DaemonCheck, FailIf
  <2> QED BY <1>0, <1>2, <1>a, <2>3, CheckOf
<1>3. CASE r = "COMPOSE-003"
  <2>1. PICK i \in Parsed : \E s \in setup.compose[i].services :
          s.nnp = "off" \/ (s.nnp = "unset" /\ ~(setup.daemon.state # "unusable" /\ setup.daemon.nnp))
    BY <1>3 DEF Certain, Insecure
  <2>2. \E s \in setup.compose[i].services : HasIssue(s, read) BY <1>u, <2>1 DEF HasIssue
  <2>3. "compose" \in read BY <1>0, <1>3, RuleKinds DEF Needs
  <2>4. On(i, "FAIL") \in ComposeCheck(read) BY <2>2, <2>3 DEF ComposeCheck, FailIf
  <2> QED BY <1>0, <1>3, <1>a, <2>4, CheckOf
<1>n. ASSUME r \in {"NET-002", "NET-003", "NET-004"}
      PROVE  Check(r, read) = NetworkCheck(r, read) /\ "docker" \in read /\ "compose" \in read
  BY <1>0, <1>n, CheckOf, RuleKinds DEF Needs
<1>4. CASE r = "NET-002"
  <2>1. answered /\ \E c \in Containers : Always(c, Orphan) BY <1>4 DEF Certain, CategoryOf
  <2>2. Orphans # {} BY <1>0, <2>1, AlwaysRead, OnContainers, CollectionAssumption
  <2>3. NetworkCheck(r, read) = {On(OwnTarget, "FAIL")}
    BY <1>4, <1>n, <2>1, <2>2, NetworkOf DEF FailIf
  <2> QED BY <1>4, <1>n, <1>a, <2>3
<1>5. CASE r = "NET-003"
  <2>1. /\ answered /\ ~IccOff /\ "closed" \notin netwas[Bridge]
        /\ \E c, d \in Containers : c # d /\ Always(c, Bridged) /\ Always(d, Bridged)
    BY <1>5 DEF Certain
  <2>2. ~(\A c, d \in OnBridge : c = d) BY <1>0, <2>1, AlwaysRead, OnContainers, CollectionAssumption
  <2>3. ~IccDisabled(read)
    <3>1. ~(Bridge \in DOMAIN gotnet /\ gotnet[Bridge] = "closed")
      BY <1>0, <2>1, SnapshotTrue, CollectionAssumption
    <3> QED BY <1>u, <2>1, <3>1 DEF IccDisabled
  <2>4. BridgeStatus(read) = "FAIL" BY <2>2, <2>3 DEF BridgeStatus
  <2>5. NetworkCheck(r, read) = {On(OwnTarget, "FAIL")} BY <1>5, <1>n, <2>1, <2>4, NetworkOf
  <2> QED BY <1>5, <1>n, <1>a, <2>5
<1>6. CASE r = "NET-004"
  <2>1. CASE answered
    <3>1. \E c \in Containers : Always(c, Exposed) BY <1>6, <2>1 DEF Certain
    <3>2. \E c \in RunningBoxes : got[c].open BY <1>0, <2>1, <3>1, AlwaysRead, OnContainers, CollectionAssumption
    <3>3. FailIf(\E c \in RunningBoxes : got[c].open) = "FAIL" BY <3>2 DEF FailIf
    <3>4. NetworkCheck(r, read) = {On(OwnTarget, FailIf(\E c \in RunningBoxes : got[c].open))}
      BY <1>6, <1>n, <2>1, NetworkOf
    <3> QED BY <1>6, <1>n, <1>a, <3>3, <3>4
  <2>2. CASE ~answered
    <3>1. PICK i \in Parsed : \E s \in setup.compose[i].services : s.open BY <1>6, <2>2 DEF Certain
    <3>2. ExposedIn(i) = "FAIL" BY <3>1 DEF ExposedIn, FailIf
    <3>3. Parsed # {} BY <3>1
    <3>4. NetworkCheck(r, read) = {On(j, ExposedIn(j)) : j \in Parsed} BY <1>6, <1>n, <2>2, <3>3, NetworkOf
    <3> QED BY <1>6, <1>n, <1>a, <3>1, <3>2, <3>4
  <2> QED BY <2>1, <2>2
<1> QED BY <1>0, <1>1, <1>2, <1>3, <1>4, <1>5, <1>6, RuleKinds

(* What is found was possible.                                             *)
LEMMA FailsPossible ==
  ASSUME ScanInv, Collected, NEW r \in Enabled, NEW x \in Check(r, read), x.status = "FAIL"
  PROVE  Possible(r)
PROOF
<1>0. IInv /\ Lasting /\ Flow /\ r \in Rules /\ Needs(r) BY Provided DEF ScanInv
<1>a. \A t, v : On(t, v).status = v BY DEF On
<1>u. (Usable(read) <=> setup.daemon.state # "unusable") /\ (IccOff <=> Usable(read) /\ ~setup.daemon.icc)
  BY <1>0, UsableRead
<1>d. ASSUME NEW v, x \in DaemonCheck(v, read)
      PROVE  Usable(read) /\ ~v
  <2>1. CASE Usable(read)
    <3>1. x = On(OwnTarget, FailIf(~v)) BY <1>d, <2>1 DEF DaemonCheck
    <3> QED BY <1>a, <2>1, <3>1, FailIfs
  <2>2. CASE ~Usable(read)
    <3>1. x = On(OwnTarget, "SKIP") BY <1>d, <2>2 DEF DaemonCheck, Skipped
    <3> QED BY <1>a, <3>1
  <2> QED BY <2>1, <2>2
<1>1. CASE r = "DAEMON-002"
  <2>1. Usable(read) /\ ~setup.daemon.nnp BY <1>0, <1>1, <1>d, CheckOf
  <2> QED BY <1>1, <1>u, <2>1 DEF Possible, Insecure, CategoryOf
<1>2. CASE r = "DAEMON-006"
  <2>1. x \in UsernsCheck(read) BY <1>0, <1>2, CheckOf
  <2>2. x \in DaemonCheck(setup.daemon.userns, read)
    <3>1. x # On(OwnTarget, "PASS") BY <1>a
    <3> QED BY <2>1, <3>1 DEF UsernsCheck
  <2>3. Usable(read) /\ ~setup.daemon.userns BY <1>d, <2>2
  <2> QED BY <1>2, <1>u, <2>3 DEF Possible, Insecure, CategoryOf
<1>3. CASE r = "COMPOSE-003"
  <2>1. x \in ComposeCheck(read) BY <1>0, <1>3, CheckOf
  <2>2. PICK i \in Parsed : x = On(i, FailIf(\E s \in setup.compose[i].services : HasIssue(s, read)))
    BY <2>1 DEF ComposeCheck
  <2>3. \E s \in setup.compose[i].services : HasIssue(s, read) BY <1>a, <2>2, FailIfs
  <2>4. \E s \in setup.compose[i].services :
          s.nnp = "off" \/ (s.nnp = "unset" /\ ~(setup.daemon.state # "unusable" /\ setup.daemon.nnp))
    BY <1>u, <2>3 DEF HasIssue
  <2> QED BY <1>3, <2>4 DEF Possible, Insecure, CategoryOf
<1>n. ASSUME r \in {"NET-002", "NET-003", "NET-004"}
      PROVE  x \in NetworkCheck(r, read) /\ "docker" \in read /\ "compose" \in read
  BY <1>0, <1>n, CheckOf, RuleKinds DEF Needs
<1>s. ASSUME r \in {"NET-002", "NET-003"}
      PROVE  answered
  <2>1. ~answered => NetworkCheck(r, read) = {On(OwnTarget, "SKIP")} BY <1>n, <1>s, NetworkOf
  <2> QED BY <1>a, <1>n, <1>s, <2>1
<1>w. answered => /\ DOMAIN got \subseteq Containers
                  /\ \A c \in DOMAIN got : got[c] \in was[c]
  BY <1>0, SnapshotTrue, CollectionAssumption
<1>4. CASE r = "NET-002"
  <2>1. x = On(OwnTarget, FailIf(Orphans # {})) BY <1>4, <1>n, <1>s, NetworkOf
  <2>2. PICK c \in Orphans : TRUE BY <1>a, <2>1, FailIfs
  <2>3. c \in Containers /\ Once(c, Orphan) BY <1>4, <1>s, <1>w, <2>2, OnContainers DEF Once
  <2> QED BY <1>4, <1>s, <2>3 DEF Possible, CategoryOf
<1>5. CASE r = "NET-003"
  <2>1. x = On(OwnTarget, BridgeStatus(read)) BY <1>5, <1>n, <1>s, NetworkOf
  <2>2. ~(\A c, d \in OnBridge : c = d) /\ ~IccDisabled(read)
    <3>1. BridgeStatus(read) = "FAIL" BY <1>a, <2>1
    <3> QED BY <3>1 DEF BridgeStatus
  <2>3. PICK c \in OnBridge, d \in OnBridge : c # d BY <2>2
  <2>4. c \in Containers /\ d \in Containers /\ Once(c, Bridged) /\ Once(d, Bridged)
    BY <1>5, <1>s, <1>w, OnContainers DEF Once
  <2>5. netwas[Bridge] # {"closed"} /\ ~IccOff
    <3>1. IF Bridge \in DOMAIN gotnet THEN gotnet[Bridge] \in netwas[Bridge] ELSE netwas[Bridge] # {"closed"}
      BY <1>0, <1>5, <1>s, SnapshotTrue, CollectionAssumption
    <3> QED BY <1>u, <2>2, <3>1 DEF IccDisabled
  <2> QED BY <1>5, <1>s, <2>3, <2>4, <2>5 DEF Possible, CategoryOf
<1>6. CASE r = "NET-004"
  <2>1. CASE answered
    <3>1. x = On(OwnTarget, FailIf(\E c \in RunningBoxes : got[c].open)) BY <1>6, <1>n, <2>1, NetworkOf
    <3>2. PICK c \in RunningBoxes : got[c].open BY <1>a, <3>1, FailIfs
    <3>3. c \in Containers /\ Once(c, Exposed) BY <1>w, <2>1, <3>2, OnContainers DEF Once
    <3> QED BY <1>6, <2>1, <3>3 DEF Possible, CategoryOf
  <2>2. CASE ~answered
    <3>1. Parsed # {}
      <4>1. Parsed = {} => NetworkCheck(r, read) = {On(OwnTarget, "SKIP")} BY <1>6, <1>n, <2>2, NetworkOf
      <4> QED BY <1>6, <1>a, <1>n, <4>1
    <3>2. NetworkCheck(r, read) = {On(j, ExposedIn(j)) : j \in Parsed} BY <1>6, <1>n, <2>2, <3>1, NetworkOf
    <3>3. PICK i \in Parsed : x = On(i, ExposedIn(i)) BY <1>6, <1>n, <3>2
    <3>4. \E s \in setup.compose[i].services : s.open BY <1>a, <3>3, FailIfs DEF ExposedIn
    <3> QED BY <1>6, <2>2, <3>4 DEF Possible, CategoryOf
  <2> QED BY <2>1, <2>2
<1> QED BY <1>0, <1>1, <1>2, <1>3, <1>4, <1>5, <1>6, RuleKinds

(* With exit code 0 nothing at or above the threshold held all the while,  *)
(* whatever Docker did during the scan; nor did anything a rule that was   *)
(* asked for looks at where the report ends in praise.                     *)
THEOREM GreenIsTrueHolds == Spec => []GreenIsTrue
PROOF
<1>1. ScanInv => GreenIsTrue
  <2> SUFFICES ASSUME ScanInv, Ended, NEW r \in Rules, Certain(r)
               PROVE  /\ Counts(r) => code # "0"
                      /\ r \in Enabled => ~Praised
    BY DEF GreenIsTrue, Enabled
  <2>0. Flow BY DEF ScanInv
  <2>1. ASSUME r \in Enabled PROVE Reported /\ Collected BY <2>0, <2>1, EndedKinds DEF Collected
  <2>2. ASSUME r \in Enabled \ setup.buggy PROVE \E f \in findings : f.status = "FAIL" /\ f.severity = SeverityOf(r)
    <3>1. PICK x \in Check(r, read) : x.status = "FAIL" BY <2>1, <2>2, CertainFails
    <3> QED BY <2>0, <2>1, <2>2, <3>1, BecomesFinding
  <2>3. ASSUME Counts(r) PROVE code # "0"
    <3>1. r \in Enabled \ setup.buggy /\ setup.failOn # "none" /\ Rank(SeverityOf(r)) <= Rank(setup.failOn)
      BY <2>3 DEF Counts
    <3>2. PICK f \in findings : f.status = "FAIL" /\ f.severity = SeverityOf(r) BY <2>2, <3>1
    <3>3. f \in Blocking BY <3>1, <3>2 DEF Blocking, Failed
    <3>4. code = "1" BY <2>0, <2>1, <3>1, <3>3 DEF Flow, Ran
    <3> QED BY <3>4
  <2>4. ASSUME r \in Enabled, Praised PROVE FALSE
    <3>1. CASE r \in setup.buggy
      <4>1. r \in raised BY <2>0, <2>1, <2>4, <3>1, FindingsOf
      <4> QED BY <2>4, <4>1 DEF Praised, NoError
    <3>2. CASE r \notin setup.buggy
      <4>1. PICK f \in findings : f.status = "FAIL" BY <2>2, <2>4, <3>2
      <4> QED BY <2>4, <4>1 DEF Praised, Problems
    <3> QED BY <3>1, <3>2
  <2> QED BY <2>3, <2>4
<1> QED BY <1>1, ScanInvHolds, PTL

(* With exit code 1 something at or above the threshold did hold.          *)
THEOREM RedIsTrueHolds == Spec => []RedIsTrue
PROOF
<1>1. ScanInv => RedIsTrue
  <2> SUFFICES ASSUME ScanInv, Ended, code = "1"
               PROVE  \E r \in Rules : Counts(r) /\ Possible(r)
    BY DEF RedIsTrue
  <2>0. Flow BY DEF ScanInv
  <2>1. Reported /\ Collected BY <2>0, EndedKinds DEF Collected
  <2>2. setup.failOn # "none" /\ Blocking # {} BY <2>0, <2>1 DEF Flow, Ran
  <2>3. PICK f \in findings : f.status = "FAIL" /\ Rank(f.severity) <= Rank(setup.failOn)
    BY <2>2 DEF Blocking, Failed
  <2> DEFINE r == f.rule
  <2>4. r \in Enabled \ setup.buggy /\ f.severity = SeverityOf(r) /\ \E x \in Check(r, read) : x.status = "FAIL"
    BY <2>0, <2>1, <2>3, IsFinding
  <2>5. r \in Rules BY <2>4 DEF Enabled
  <2> HIDE DEF r
  <2>6. Counts(r) BY <2>2, <2>3, <2>4 DEF Counts
  <2>7. Possible(r) BY <2>1, <2>4, FailsPossible
  <2> QED BY <2>5, <2>6, <2>7
<1> QED BY <1>1, ScanInvHolds, PTL

(* The collection within a scan is a collection: all that is proved of it  *)
(* holds of every scan.                                                    *)
THEOREM ScanCollects == Spec => CollectSpec
PROOF
<1>1. Init => CollectInit BY DEF Init
<1>2. [Next]_vars => [CollectNext]_collection
  <2> SUFFICES ASSUME [Next]_vars PROVE [CollectNext]_collection OBVIOUS
  <2>1. CASE CollectDocker BY <2>1 DEF CollectDocker
  <2>2. CASE UNCHANGED vars BY <2>2 DEF vars
  <2>3. CASE Begin \/ CollectDaemon \/ CollectCompose \/ DockerCollected \/ Report \/ ReportFails \/ \E r \in Rules : RunRule(r)
    BY <2>3 DEF Begin, CollectDaemon, CollectCompose, DockerCollected, Report, ReportFails, RunRule
  <2> QED BY <2>1, <2>2, <2>3 DEF Next
<1> QED BY <1>1, <1>2, PTL DEF Spec, CollectSpec
-----------------------------------------------------------------------------
(* The ruleset.                                                            *)
LEMMA InForceIsRead ==
  ASSUME NEW k \in Commands, NEW file \in InForce(k)
  PROVE  file = RulesetOf(k) /\ file \in RulesetFiles
PROOF
<1>0. k.ruleset \in RulesetFiles \cup {NoRuleset} /\ k.rulesets \in Seq(RulesetFiles \cup {NoRuleset})
  BY ScanAssumption
<1>1. CASE k.ruleset # NoRuleset BY <1>0, <1>1 DEF InForce, RulesetOf
<1>2. CASE k.ruleset = NoRuleset
  <2> DEFINE First(i) == k.rulesets[i] # NoRuleset /\ \A j \in 1..(i - 1) : k.rulesets[j] = NoRuleset
             first == CHOOSE i \in DOMAIN k.rulesets : First(i)
  <2>1. PICK i \in DOMAIN k.rulesets : file = k.rulesets[i] /\ First(i) BY <1>2 DEF InForce
  <2>2. first \in DOMAIN k.rulesets /\ First(first) BY <2>1
  <2>3. DOMAIN k.rulesets \subseteq Nat \ {0} BY <1>0
  <2>4. first = i BY <2>1, <2>2, <2>3
  <2>5. RulesetOf(k) = k.rulesets[first] BY <1>2, <2>1 DEF RulesetOf, FirstThere
  <2> HIDE DEF First, first
  <2>6. file \in RulesetFiles \cup {NoRuleset} /\ file # NoRuleset
    <3>1. file # NoRuleset BY <2>1 DEF First
    <3> QED BY <1>0, <2>1, <3>1
  <2> QED BY <2>1, <2>4, <2>5, <2>6
<1> QED BY <1>1, <1>2

\* Of the entries for a name the last one counts.
LEMMA LastCounts ==
  ASSUME NEW file \in RulesetFiles, NEW i \in DOMAIN file.severity,
         \A j \in DOMAIN file.severity : file.severity[j][1] = file.severity[i][1] => j <= i
  PROVE  /\ file.severity[i][1] \in DOMAIN Overrides(file)
         /\ Overrides(file)[file.severity[i][1]] = file.severity[i][2]
PROOF
<1>0. DOMAIN file.severity \subseteq Nat BY DEF RulesetFiles
<1> DEFINE n == file.severity[i][1]
           Last(j) == file.severity[j][1] = n /\ \A m \in DOMAIN file.severity : file.severity[m][1] = n => m <= j
           last == CHOOSE j \in DOMAIN file.severity : Last(j)
<1>1. last \in DOMAIN file.severity /\ Last(last) OBVIOUS
<1>2. last = i BY <1>0, <1>1
<1>3. LastEntry(file, n) = last BY DEF LastEntry
<1> HIDE DEF last, Last
<1>4. n \in {file.severity[j][1] : j \in DOMAIN file.severity} OBVIOUS
<1> QED BY <1>2, <1>3, <1>4 DEF Overrides

(* Whatever rulesets there are and whichever is named, a scan that reports *)
(* has done all that the one in force says, or there was none.             *)
THEOREM RulesetObeyedHolds == Spec => []RulesetObeyed
PROOF
<1>1. ScanInv => RulesetObeyed
  <2> SUFFICES ASSUME ScanInv, Ended, NEW file \in InForce(setup.command)
               PROVE  /\ file.text = "mapping"
                      /\ \A n \in file.disabled : n \in Rules \ raised /\ \A f \in findings : f.rule # n
                      /\ \A i \in DOMAIN file.severity :
                           LET n == file.severity[i][1]
                               v == file.severity[i][2]
                           IN /\ n \in Rules /\ v \in Severities
                              /\ (\A j \in DOMAIN file.severity : file.severity[j][1] = n => j <= i) =>
                                   \A f \in findings : f.rule = n => f.severity = v
    BY DEF RulesetObeyed
  <2>0. Flow /\ setup \in Setups /\ setup.inputs = "ok" BY DEF ScanInv, Flow, Ended
  <2>1. PICK k \in Commands : setup = SetupOf(k) BY <2>0 DEF Setups
  <2>2. setup.command = k BY <2>1 DEF SetupOf
  <2>3. file = RulesetOf(k) /\ file \in RulesetFiles BY <2>2, InForceIsRead
  <2>4. Verdict(file) = "ok" BY <2>0, <2>1, <2>3 DEF SetupOf
  <2>5. setup.disabled = file.disabled /\ setup.severity = Overrides(file) BY <2>1, <2>3, <2>4 DEF SetupOf
  <2>6. file.text = "mapping" /\ NamesIn(file) \subseteq Rules /\ ValuesIn(file) \subseteq Severities
    BY <2>3, <2>4 DEF Verdict, RulesetFiles
  <2>7. ASSUME NEW f \in findings PROVE f.rule \in Enabled /\ f.severity = SeverityOf(f.rule)
    BY <2>0, <2>7, EndedKinds, IsFinding
  <2>8. raised \subseteq Enabled BY <2>0, EndedKinds DEF Flow, Ran, Collected
  <2>9. ASSUME NEW n \in file.disabled PROVE n \in Rules \ raised /\ \A f \in findings : f.rule # n
    <3>1. n \notin Enabled BY <2>5 DEF Enabled
    <3> QED BY <2>6, <2>7, <2>8, <3>1 DEF NamesIn
  <2>10. ASSUME NEW i \in DOMAIN file.severity
         PROVE  /\ file.severity[i][1] \in Rules /\ file.severity[i][2] \in Severities
                /\ (\A j \in DOMAIN file.severity : file.severity[j][1] = file.severity[i][1] => j <= i) =>
                     \A f \in findings : f.rule = file.severity[i][1] => f.severity = file.severity[i][2]
    <3>1. file.severity[i][1] \in Rules /\ file.severity[i][2] \in Severities BY <2>6 DEF NamesIn, ValuesIn
    <3>2. ASSUME \A j \in DOMAIN file.severity : file.severity[j][1] = file.severity[i][1] => j <= i,
                 NEW f \in findings, f.rule = file.severity[i][1]
          PROVE  f.severity = file.severity[i][2]
      BY <2>3, <2>5, <2>7, <3>2, LastCounts DEF SeverityOf
    <3> QED BY <3>1, <3>2
  <2> QED BY <2>6, <2>9, <2>10
<1> QED BY <1>1, ScanInvHolds, PTL
-----------------------------------------------------------------------------
(* The score.  A scan finds finitely much, of each severity a number that  *)
(* can be counted, and what is deducted is the sum of what each is worth.  *)

\* A set of positions that is not empty has a first and a last one: among the
\* segments that begin, or end, at one of them there is a smallest.
LEMMA FirstAndLast ==
  ASSUME NEW n \in Nat, NEW I \in SUBSET (1..n), I # {}
  PROVE  /\ \E i \in I : \A j \in I : i <= j
         /\ \E i \in I : \A j \in I : j <= i
PROOF
<1> DEFINE Starts == {1..i : i \in I}
           Rests == {i..n : i \in I}
<1>0. \A S \in Starts \cup Rests : S \in FiniteSubsetsOf(Nat)
  <2>1. \A i \in I : 1..i \in FiniteSubsetsOf(Nat) /\ i..n \in FiniteSubsetsOf(Nat)
    BY FS_Interval DEF FiniteSubsetsOf
  <2> QED BY <2>1
<1>1. \A C \in SUBSET FiniteSubsetsOf(Nat) :
        C # {} => \E x \in C : \A y \in C : <<y, x>> \notin StrictSubsetOrdering(Nat)
  BY FS_StrictSubsetOrderingWellFounded, WFMin
<1>2. /\ \E x \in Starts : \A y \in Starts : <<y, x>> \notin StrictSubsetOrdering(Nat)
      /\ \E x \in Rests : \A y \in Rests : <<y, x>> \notin StrictSubsetOrdering(Nat)
  <2>1. Starts # {} /\ Rests # {} /\ Starts \subseteq FiniteSubsetsOf(Nat) /\ Rests \subseteq FiniteSubsetsOf(Nat)
    BY <1>0
  <2> HIDE DEF Starts, Rests
  <2> QED BY <1>1, <2>1
<1>3. PICK i \in I : \A j \in I : <<1..j, 1..i>> \notin StrictSubsetOrdering(Nat) BY <1>2
<1>4. PICK l \in I : \A j \in I : <<j..n, l..n>> \notin StrictSubsetOrdering(Nat) BY <1>2
<1>5. ASSUME NEW j \in I PROVE i <= j
  <2> SUFFICES ASSUME j < i PROVE FALSE OBVIOUS
  <2>1. 1..j \subseteq 1..i /\ 1..i \subseteq Nat /\ i \in 1..i /\ i \notin 1..j OBVIOUS
  <2> QED BY <1>3, <2>1 DEF StrictSubsetOrdering
<1>6. ASSUME NEW j \in I PROVE j <= l
  <2> SUFFICES ASSUME j > l PROVE FALSE OBVIOUS
  <2>1. j..n \subseteq l..n /\ l..n \subseteq Nat /\ l \in l..n /\ l \notin j..n OBVIOUS
  <2> QED BY <1>4, <2>1 DEF StrictSubsetOrdering
<1> QED BY <1>5, <1>6

\* A search finds what is in one of the places, or nothing.
LEMMA ThereIsOne ==
  ASSUME NEW S, NEW none, NEW places \in Seq(S \cup {none})
  PROVE  FirstThere(places, none) \in S \cup {none}
PROOF
<1>1. CASE \A i \in DOMAIN places : places[i] = none BY <1>1 DEF FirstThere
<1>2. CASE ~ \A i \in DOMAIN places : places[i] = none
  <2> DEFINE I == {i \in DOMAIN places : places[i] # none}
             P(i) == places[i] # none /\ \A j \in 1..(i - 1) : places[j] = none
  <2>1. DOMAIN places = 1..Len(places) /\ Len(places) \in Nat OBVIOUS
  <2>2. PICK i \in I : \A j \in I : i <= j
    <3>1. I # {} /\ I \in SUBSET (1..Len(places)) BY <1>2, <2>1
    <3> HIDE DEF I
    <3> QED BY <2>1, <3>1, FirstAndLast
  <2>3. i \in DOMAIN places /\ P(i) BY <2>1, <2>2
  <2>4. (CHOOSE j \in DOMAIN places : P(j)) \in DOMAIN places BY <2>3
  <2> QED BY <1>2, <2>4 DEF FirstThere
<1> QED BY <1>1, <1>2

\* Whatever the ruleset says, a rule's findings have one of the five severities.
LEMMA SeverityTyped == ASSUME setup \in Setups, NEW r \in Rules PROVE SeverityOf(r) \in Severities
PROOF
<1>s. Severities = {"CRITICAL", "HIGH", "MEDIUM", "LOW", "INFO"}
  <2>1. DOMAIN SeverityOrder = 1..5 BY DEF SeverityOrder
  <2> QED BY <2>1 DEF Severities, SeverityOrder
<1>1. PICK k \in Commands : setup = SetupOf(k) BY DEF Setups
<1> DEFINE file == RulesetOf(k)
<1>2. file \in RulesetFiles \cup {NoRuleset}
  <2>1. k.ruleset \in RulesetFiles \cup {NoRuleset} /\ k.rulesets \in Seq(RulesetFiles \cup {NoRuleset})
    BY ScanAssumption
  <2> QED BY <2>1, ThereIsOne DEF RulesetOf
<1>3. setup.severity = IF Verdict(file) = "ok" THEN Overrides(file) ELSE <<>> BY <1>1 DEF SetupOf
<1> HIDE DEF file
<1>4. CASE r \in DOMAIN setup.severity
  <2>1. Verdict(file) = "ok" /\ setup.severity = Overrides(file) BY <1>3, <1>4
  <2>2. r \in {file.severity[i][1] : i \in DOMAIN file.severity} BY <1>4, <2>1 DEF Overrides
  <2>3. file \in RulesetFiles BY <1>2, <2>2 DEF NoRuleset
  <2>4. DOMAIN file.severity = 1..Len(file.severity) /\ Len(file.severity) \in Nat BY <2>3 DEF RulesetFiles
  <2> DEFINE I == {i \in DOMAIN file.severity : file.severity[i][1] = r}
  <2>5. PICK l \in I : \A j \in I : j <= l
    <3>1. I # {} /\ I \in SUBSET (1..Len(file.severity)) BY <2>2, <2>4
    <3> HIDE DEF I
    <3> QED BY <2>4, <3>1, FirstAndLast
  <2>6. LastEntry(file, r) \in DOMAIN file.severity BY <2>5 DEF LastEntry
  <2>7. setup.severity[r] \in ValuesIn(file) BY <2>1, <2>2, <2>6 DEF Overrides, ValuesIn
  <2>8. ValuesIn(file) \subseteq Severities BY <2>1 DEF Verdict
  <2> QED BY <1>4, <2>7, <2>8 DEF SeverityOf
<1>5. CASE r \notin DOMAIN setup.severity
  <2>1. Native(r) \in Severities BY <1>s, RuleKinds DEF Native
  <2> QED BY <1>5, <2>1 DEF SeverityOf
<1> QED BY <1>4, <1>5

LEMMA FinitelyMany == ASSUME NEW g, IsFiniteSet(DOMAIN g), g = [x \in DOMAIN g |-> g[x]]
                      PROVE  IsFiniteSet({g[x] : x \in DOMAIN g})
PROOF
<1> DEFINE T == {g[x] : x \in DOMAIN g}
<1>1. g \in [DOMAIN g -> T] OBVIOUS
<1>2. \A t \in T : \E x \in DOMAIN g : g[x] = t OBVIOUS
<1> HIDE DEF T
<1>3. g \in Surjection(DOMAIN g, T) BY <1>1, <1>2 DEF Surjection
<1>4. IsFiniteSet(T) BY <1>3, FS_Surjection
<1> QED BY <1>4 DEF T

\* A check finds finitely much, of a status there is, of one of the projects or of the host.
LEMMA ChecksTyped ==
  ASSUME setup \in Setups, NEW r \in Rules, NEW k
  PROVE  IsFiniteSet(Check(r, k)) /\ \A f \in Check(r, k) : f.target \in Nat /\ f.status \in Statuses
PROOF
<1>0. /\ \A t, v : On(t, v).target = t /\ On(t, v).status = v
      /\ "PASS" \in Statuses /\ "SKIP" \in Statuses /\ OwnTarget \in Nat
  BY DEF On, Statuses, OwnTarget
<1>f. \A b : FailIf(b) \in Statuses BY DEF FailIf, Statuses
<1>1. Parsed \subseteq Nat /\ IsFiniteSet(Parsed)
  <2>1. setup.compose \in Seq(Projects) BY ScanAssumption DEF Setups, SetupOf
  <2>2. DOMAIN setup.compose = 1..Len(setup.compose) /\ Len(setup.compose) \in Nat BY <2>1
  <2>3. IsFiniteSet(DOMAIN setup.compose) BY <2>2, FS_Interval
  <2>4. Parsed \subseteq DOMAIN setup.compose BY DEF Parsed
  <2> QED BY <2>2, <2>3, <2>4, FS_Subset
<1>2. \A x : IsFiniteSet({x}) /\ IsFiniteSet({}) BY FS_EmptySet, FS_Singleton
<1>d. ASSUME NEW v
      PROVE  IsFiniteSet(DaemonCheck(v, k)) /\ \A f \in DaemonCheck(v, k) : f.target \in Nat /\ f.status \in Statuses
  <2>1. DaemonCheck(v, k) \in {{On(OwnTarget, "PASS")}, {On(OwnTarget, "FAIL")}, {On(OwnTarget, "SKIP")}}
    BY DEF DaemonCheck, Skipped, FailIf
  <2>2. PICK x \in Statuses : DaemonCheck(v, k) = {On(OwnTarget, x)} BY <2>1 DEF Statuses
  <2>3. IsFiniteSet(DaemonCheck(v, k)) BY <1>2, <2>2
  <2>4. ASSUME NEW f \in DaemonCheck(v, k) PROVE f.target \in Nat /\ f.status \in Statuses
    <3>1. f = On(OwnTarget, x) BY <2>2, <2>4
    <3> QED BY <1>0, <3>1
  <2> QED BY <2>3, <2>4
<1>3. CASE r = "COMPOSE-003"
  <2> DEFINE G(i) == On(i, FailIf(\E s \in setup.compose[i].services : HasIssue(s, k)))
  <2>1. Check(r, k) = ComposeCheck(k) BY <1>3, CheckOf
  <2>2. ComposeCheck(k) = IF "compose" \notin k THEN {} ELSE {G(i) : i \in Parsed} BY DEF ComposeCheck
  <2>3. \A i \in Parsed : G(i).target \in Nat /\ G(i).status \in Statuses
    <3>1. \A i \in Parsed : FailIf(\E s \in setup.compose[i].services : HasIssue(s, k)) \in Statuses
      BY DEF FailIf, Statuses
    <3>2. \A i : G(i).target = i /\ G(i).status = FailIf(\E s \in setup.compose[i].services : HasIssue(s, k))
      BY <1>0, Zenon
    <3> HIDE DEF G
    <3> QED BY <1>1, <3>1, <3>2
  <2> HIDE DEF G
  <2>4. IsFiniteSet({G(i) : i \in Parsed})
    <3> DEFINE g == [i \in Parsed |-> G(i)]
    <3>1. IsFiniteSet({g[x] : x \in DOMAIN g}) BY <1>1, FinitelyMany
    <3>2. {g[x] : x \in DOMAIN g} = {G(i) : i \in Parsed} OBVIOUS
    <3> QED BY <3>1, <3>2
  <2> QED BY <1>2, <2>1, <2>2, <2>3, <2>4
<1>4. CASE r = "DAEMON-002" BY <1>4, <1>d, CheckOf
<1>5. CASE r = "DAEMON-006"
  <2>1. Check(r, k) = {On(OwnTarget, "PASS")} \/ Check(r, k) = DaemonCheck(setup.daemon.userns, k)
    BY <1>5, CheckOf DEF UsernsCheck
  <2>2. CASE Check(r, k) = {On(OwnTarget, "PASS")} BY <1>0, <1>2, <2>2, Zenon
  <2>3. CASE Check(r, k) = DaemonCheck(setup.daemon.userns, k) BY <1>d, <2>3
  <2> QED BY <2>1, <2>2, <2>3
<1>6. CASE r \in {"NET-002", "NET-003", "NET-004"}
  <2>0. Check(r, k) = NetworkCheck(r, k) BY <1>6, CheckOf
  <2>1. CASE "docker" \notin k
    <3>1. Check(r, k) = {} BY <1>6, <2>0, <2>1, NetworkOf
    <3> QED BY <1>2, <3>1
  <2>2. CASE "docker" \in k /\ answered
    <3>1. BridgeStatus(k) \in Statuses BY DEF BridgeStatus, Statuses
    <3>2. \E x \in Statuses : Check(r, k) = {On(OwnTarget, x)} BY <1>f, <1>6, <2>0, <2>2, <3>1, NetworkOf
    <3> QED BY <1>0, <1>2, <3>2
  <2>3. CASE "docker" \in k /\ ~answered /\ r = "NET-004" /\ "compose" \in k /\ Parsed # {}
    <3> DEFINE G(i) == On(i, ExposedIn(i))
    <3>1. Check(r, k) = {G(i) : i \in Parsed} BY <1>6, <2>0, <2>3, NetworkOf
    <3>2. \A i \in Parsed : G(i).target \in Nat /\ G(i).status \in Statuses
      <4>1. \A i \in Parsed : ExposedIn(i) \in Statuses BY DEF ExposedIn, FailIf, Statuses
      <4> QED BY <1>0, <1>1, <4>1
    <3> HIDE DEF G
    <3>3. IsFiniteSet({G(i) : i \in Parsed})
      <4> DEFINE g == [i \in Parsed |-> G(i)]
      <4>1. IsFiniteSet({g[x] : x \in DOMAIN g}) BY <1>1, FinitelyMany
      <4>2. {g[x] : x \in DOMAIN g} = {G(i) : i \in Parsed} OBVIOUS
      <4> QED BY <4>1, <4>2
    <3> QED BY <3>1, <3>2, <3>3
  <2>4. CASE "docker" \in k /\ ~answered /\ ~(r = "NET-004" /\ "compose" \in k /\ Parsed # {})
    <3>1. Check(r, k) = {On(OwnTarget, "SKIP")} BY <1>6, <2>0, <2>4, NetworkOf
    <3> QED BY <1>0, <1>2, <3>1
  <2> QED BY <2>1, <2>2, <2>3, <2>4
<1> QED BY <1>3, <1>4, <1>5, <1>6, RuleKinds

LEMMA OfTyped ==
  ASSUME setup \in Setups, NEW r \in Rules
  PROVE  IsFiniteSet(Of(r)) /\ Of(r) \subseteq Findings
PROOF
<1> DEFINE G(f) == [rule |-> r, target |-> f.target, status |-> f.status, severity |-> SeverityOf(r)]
<1>1. Of(r) = {G(f) : f \in Check(r, read)} BY DEF Of
<1>2. \A f \in Check(r, read) : G(f) \in Findings BY ChecksTyped, SeverityTyped DEF Findings
<1> HIDE DEF G
<1>3. IsFiniteSet({G(f) : f \in Check(r, read)})
  <2> DEFINE g == [f \in Check(r, read) |-> G(f)]
  <2>1. IsFiniteSet({g[x] : x \in DOMAIN g}) BY ChecksTyped, FinitelyMany
  <2>2. {g[x] : x \in DOMAIN g} = {G(f) : f \in Check(r, read)} OBVIOUS
  <2> QED BY <2>1, <2>2
<1> QED BY <1>1, <1>2, <1>3

LEMMA CountsWhole ==
  ASSUME IsFiniteSet(findings), NEW s
  PROVE  Count(s) \in Nat /\ (Count(s) = 0 <=> \A f \in Failed : f.severity # s)
PROOF
<1> DEFINE F == {f \in Failed : f.severity = s}
<1>1. F \subseteq findings BY DEF Failed
<1>2. IsFiniteSet(F) BY <1>1, FS_Subset
<1>3. Cardinality(F) \in Nat /\ (Cardinality(F) = 0 <=> F = {})
  <2> HIDE DEF F
  <2> QED BY <1>2, FS_CardinalityType, FS_EmptySet
<1> QED BY <1>3 DEF Count

\* What each severity costs adds up, and nothing else is deducted.
LEMMA DeductedSum ==
  ASSUME IsFiniteSet(findings)
  PROVE  /\ Deducted \in Nat
         /\ Deducted = 40 * Count("CRITICAL") + 20 * Count("HIGH") + 10 * Count("MEDIUM") + 3 * Count("LOW")
         /\ Score \in 0..100 /\ Score = IF Deducted > 100 THEN 0 ELSE 100 - Deducted
PROOF
<1>1. /\ Weight("CRITICAL") = 40 /\ Weight("HIGH") = 20 /\ Weight("MEDIUM") = 10
      /\ Weight("LOW") = 3 /\ Weight("INFO") = 0
  BY DEF Weight
<1>2. /\ Count("CRITICAL") \in Nat /\ Count("HIGH") \in Nat /\ Count("MEDIUM") \in Nat
      /\ Count("LOW") \in Nat /\ Count("INFO") \in Nat
  BY CountsWhole
<1>3. Deducted = 40 * Count("CRITICAL") + 20 * Count("HIGH") + 10 * Count("MEDIUM") + 3 * Count("LOW")
  BY <1>1, <1>2 DEF Deducted
<1>4. Deducted \in Nat BY <1>2, <1>3
<1> QED BY <1>3, <1>4 DEF Score
-----------------------------------------------------------------------------
(* With what was found typed and finite, and the score that of what was    *)
(* found once a report was made, the type invariant is inductive.          *)
Scored ==
  /\ Reported => score = Score
  /\ Enabled = {} => score = 100
ScanTyped ==
  /\ read \subseteq {"daemon", "compose", "docker"} /\ said \subseteq Notes
  /\ findings \subseteq Findings /\ IsFiniteSet(findings) /\ raised \subseteq Rules
  /\ score \in 0..100 /\ code \in {"none", "0", "1", "2", "crash", "pipe"}
  /\ Scored

LEMMA NotesTyped == ASSUME setup \in Setups PROVE ComposeNotes \subseteq Notes
PROOF
<1>1. setup.compose \in Seq(Projects) BY ScanAssumption DEF Setups, SetupOf
<1>2. DOMAIN setup.compose \subseteq Nat BY <1>1
<1> QED BY <1>2 DEF ComposeNotes, Announced, Notes

LEMMA ScanTypedInit == Init => ScanTyped
PROOF
BY FS_EmptySet DEF Init, ScanTyped, Scored, Reported

LEMMA ScoredAgain ==
  ASSUME Scored, UNCHANGED <<setup, stage, code, findings, score>>
  PROVE  Scored'
PROOF
<1>1. Enabled' = Enabled BY SameOptions
<1>2. Score' = Score BY DEF Score, Deducted, Count, Failed
<1> QED BY <1>1, <1>2 DEF Scored, Reported

\* Before a report is made the score is not touched.
LEMMA ScoredYet ==
  ASSUME Scored, UNCHANGED <<setup, score>>, ~Reported'
  PROVE  Scored'
PROOF
BY SameOptions DEF Scored

LEMMA ScanTypedNext ==
  ASSUME ScanInv, ScanTyped, [Next]_vars
  PROVE  ScanTyped'
PROOF
<1>0. Flow /\ setup \in Setups /\ Scored /\ IsFiniteSet(findings) BY DEF ScanInv, Flow, ScanTyped
<1>c. setup.inputs \in {"missing", "error", "crash", "ok"} BY <1>0, InputKinds
<1>1. CASE Begin
  <2>1. UNCHANGED <<setup, read, said, findings, raised, score>> /\ code' \in {code, "0", "2", "crash"}
    BY <1>1, <1>c DEF Begin, EndWith
  <2>2. ~Reported'
    <3>1. Enabled' = Enabled BY <2>1, SameOptions
    <3>2. setup.inputs = "ok" /\ Enabled # {} => stage' = "daemon" BY <1>1 DEF Begin
    <3> QED BY <2>1, <3>1, <3>2 DEF Reported
  <2> QED BY <1>0, <2>1, <2>2, ScoredYet DEF ScanTyped
<1>2. CASE CollectDaemon
  <2>1. /\ UNCHANGED <<setup, findings, raised, score>> /\ code' \in {code, "crash"}
        /\ read' \subseteq read \cup {"daemon"} /\ said' \subseteq said \cup {<<"noDaemonFile", 0>>}
        /\ (stage' = "compose" \/ code' = "crash")
    BY <1>2 DEF CollectDaemon, EndWith, Announced
  <2>2. ~Reported' BY <2>1 DEF Reported
  <2>3. <<"noDaemonFile", 0>> \in Notes BY DEF Notes
  <2> QED BY <1>0, <2>1, <2>2, <2>3, ScoredYet DEF ScanTyped
<1>3. CASE CollectCompose
  <2>1. /\ UNCHANGED <<setup, findings, raised, score, code>> /\ stage' \in {"docker", "rules"}
        /\ read' \subseteq read \cup {"compose"} /\ said' \subseteq said \cup ComposeNotes
    BY <1>3 DEF CollectCompose
  <2>2. ~Reported' BY <2>1 DEF Reported
  <2> QED BY <1>0, <2>1, <2>2, ScoredYet, NotesTyped DEF ScanTyped
<1>4. CASE CollectDocker \/ UNCHANGED vars
  <2>1. UNCHANGED <<setup, stage, read, said, findings, raised, score, code>>
    BY <1>4 DEF CollectDocker, vars, scan
  <2> QED BY <1>0, <2>1, ScoredAgain DEF ScanTyped
<1>5. CASE DockerCollected
  <2>1. /\ UNCHANGED <<setup, findings, raised, score>> /\ code' \in {code, "crash"}
        /\ read' \subseteq read \cup {"docker"} /\ said' \subseteq said \cup {<<"docker", 0>>, <<"deps", 0>>}
        /\ (stage' = "rules" \/ code' = "crash")
    BY <1>5 DEF DockerCollected, EndWith, Announced
  <2>2. ~Reported' BY <2>1 DEF Reported
  <2>3. <<"docker", 0>> \in Notes /\ <<"deps", 0>> \in Notes BY DEF Notes
  <2> QED BY <1>0, <2>1, <2>2, <2>3, ScoredYet DEF ScanTyped
<1>6. ASSUME NEW r \in Rules, RunRule(r) PROVE ScanTyped'
  <2>1. /\ UNCHANGED <<setup, stage, read, said, score, code>> /\ stage = "rules"
        /\ findings' = findings \/ findings' = findings \cup Of(r)
        /\ raised' \subseteq raised \cup {r}
    BY <1>6 DEF RunRule, Of
  <2>2. IsFiniteSet(findings') /\ findings' \subseteq Findings
    BY <1>0, <2>1, OfTyped, FS_Union DEF ScanTyped
  <2>3. ~Reported' BY <2>1 DEF Reported
  <2> QED BY <1>0, <2>1, <2>2, <2>3, ScoredYet DEF ScanTyped
<1>7. CASE Report \/ ReportFails
  <2>1. /\ UNCHANGED <<setup, read, said, findings, raised>> /\ score' = Score /\ stage = "rules"
        /\ code' \in {"0", "1", "pipe", "crash"}
    BY <1>7 DEF Report, ReportFails, EndWith
  <2>2. Score' = Score BY <2>1 DEF Score, Deducted, Count, Failed
  <2>3. Enabled' = Enabled /\ Enabled # {} BY <1>0, <2>1, SameOptions DEF Flow, Before
  <2> QED BY <1>0, <2>1, <2>2, <2>3, DeductedSum DEF ScanTyped, Scored
<1> QED BY <1>1, <1>2, <1>3, <1>4, <1>5, <1>6, <1>7 DEF Next

LEMMA ScanTypedHolds == Spec => [](ScanInv /\ ScanTyped)
PROOF
<1>1. ScanInv /\ ScanTyped /\ [Next]_vars => ScanTyped' BY ScanTypedNext
<1> QED BY <1>1, ScanTypedInit, ScanInvHolds, PTL DEF Spec

(* Whatever the files, the ruleset, the options and Docker are, a scan has *)
(* findings of rules there are with statuses and severities there are, a   *)
(* score between 0 and 100 however much is deducted (scoring.py:47), and   *)
(* one of the exit codes cli.py knows or a traceback.                      *)
THEOREM ScanTypeCorrect == Spec => []TypeOK
PROOF
<1>1. ScanInv /\ ScanTyped => TypeOK
  BY DEF ScanInv, IInv, Flow, Kinds, ScanTyped, TypeOK
<1> QED BY <1>1, ScanTypedHolds, PTL

LEMMA RanksInOrder ==
  ASSUME NEW s \in Severities
  PROVE  /\ s \in {"CRITICAL", "HIGH", "MEDIUM", "LOW", "INFO"}
         /\ Rank(s) <= Rank("LOW") <=> s # "INFO"
PROOF
<1>1. DOMAIN SeverityOrder = 1..5 BY DEF SeverityOrder
<1>2. /\ SeverityOrder[1] = "CRITICAL" /\ SeverityOrder[2] = "HIGH" /\ SeverityOrder[3] = "MEDIUM"
      /\ SeverityOrder[4] = "LOW" /\ SeverityOrder[5] = "INFO"
  BY DEF SeverityOrder
<1>3. s \in {"CRITICAL", "HIGH", "MEDIUM", "LOW", "INFO"} BY <1>1, <1>2 DEF Severities
<1>4. \A i, j \in DOMAIN SeverityOrder : SeverityOrder[i] = SeverityOrder[j] => i = j BY <1>1, <1>2
<1>5. ASSUME NEW i \in 1..5 PROVE Rank(SeverityOrder[i]) = i
  BY <1>1, <1>4 DEF Rank
<1>6. /\ Rank("CRITICAL") = 1 /\ Rank("HIGH") = 2 /\ Rank("MEDIUM") = 3 /\ Rank("LOW") = 4 /\ Rank("INFO") = 5
  BY <1>2, <1>5
<1> QED BY <1>3, <1>6

(* The score tells how bad it is, for every scan: the points of the        *)
(* severities cannot add up so that a failure that counts is hidden or a   *)
(* grade is better than its worst failure allows, and at the threshold LOW *)
(* the exit code says what the score says.                                 *)
THEOREM ScoreTellsHolds == Spec => []ScoreTells
PROOF
<1>1. ScanInv /\ ScanTyped => ScoreTells
  <2> SUFFICES ASSUME ScanInv, ScanTyped, Ended PROVE ScoreTells BY DEF ScoreTells
  <2>0. Flow /\ Scored /\ IsFiniteSet(findings) /\ findings \subseteq Findings BY DEF ScanInv, ScanTyped
  <2>1. CASE Enabled = {} /\ findings = {} /\ code = "0"
    <3>1. score = 100 /\ Failed = {} BY <2>0, <2>1 DEF Scored, Failed
    <3> QED BY <2>1, <3>1 DEF ScoreTells
  <2>2. CASE Reported
    <3> DEFINE c == Count("CRITICAL")
               h == Count("HIGH")
               m == Count("MEDIUM")
               l == Count("LOW")
    <3>1. score = IF 40 * c + 20 * h + 10 * m + 3 * l > 100 THEN 0 ELSE 100 - (40 * c + 20 * h + 10 * m + 3 * l)
      BY <2>0, <2>2, DeductedSum DEF Scored
    <3>2. /\ c \in Nat /\ (c = 0 <=> \A f \in Failed : f.severity # "CRITICAL")
          /\ h \in Nat /\ (h = 0 <=> \A f \in Failed : f.severity # "HIGH")
          /\ m \in Nat /\ (m = 0 <=> \A f \in Failed : f.severity # "MEDIUM")
          /\ l \in Nat /\ (l = 0 <=> \A f \in Failed : f.severity # "LOW")
      BY <2>0, CountsWhole
    <3>3. \A f \in Failed : f.severity \in Severities BY <2>0 DEF Failed, Findings
    <3> HIDE DEF c, h, m, l
    <3>4. /\ score = 100 <=> c = 0 /\ h = 0 /\ m = 0 /\ l = 0
          /\ score >= 90 => c = 0 /\ h = 0
          /\ score >= 75 => c = 0
      BY <3>1, <3>2
    <3>5. score = 100 <=> \A f \in Failed : f.severity = "INFO" BY <3>2, <3>3, <3>4, RanksInOrder
    <3>6. Grade = "A" => \A f \in Failed : f.severity \notin {"HIGH", "CRITICAL"} BY <3>2, <3>4 DEF Grade
    <3>7. Grade \in {"A", "B"} => \A f \in Failed : f.severity # "CRITICAL" BY <3>2, <3>4 DEF Grade
    <3>8. ASSUME setup.failOn = "LOW" PROVE code = "0" <=> score = 100
      <4>1. code = IF Blocking # {} THEN "1" ELSE "0" BY <2>0, <2>2, <3>8 DEF Flow, Ran
      <4>2. Blocking = {} <=> \A f \in Failed : f.severity = "INFO"
        BY <3>3, <3>8, RanksInOrder DEF Blocking
      <4> QED BY <3>5, <4>1, <4>2
    <3> QED BY <3>5, <3>6, <3>7, <3>8 DEF ScoreTells
  <2> QED BY <2>0, <2>1, <2>2, EndedKinds
<1> QED BY <1>1, ScanTypedHolds, PTL
=============================================================================
