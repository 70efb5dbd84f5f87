----------------------------- MODULE Connectivity -----------------------------
(***************************************************************************)
(* `dockguard diagnose connectivity A B` (src/dockguard/diagnostics/       *)
(* connectivity.py): five checks of one snapshot, the first FAIL being the *)
(* root cause, each with a fix the user may follow; and rule NET-001       *)
(* (rules/network/dependency.py), which judges the same dependency A -> B  *)
(* by code of its own.  A is a compose service with several containers, B  *)
(* one container.                                                          *)
(***************************************************************************)
EXTENDS DockerHost, Sequences

CONSTANTS
  Sources,    \* the containers of A, in the order of runtime.containers
  Target,     \* B
  Setups,     \* what compose may declare
  Bridges,    \* what networks may be at the start
  Asks        \* the --port asked for, and what A is configured with

PortKinds == {"unset", "listed", "unlisted", "undeclared"}
AddressKinds == {"name", "self", "ip", "alias"}

ASSUME ConnectivityAssumption ==
  /\ Target \in Containers /\ Sources \in Seq(Containers \ {Target}) /\ Sources # <<>>
  /\ Setups \subseteq [Containers -> Settings] /\ Bridges \subseteq {"open", "blocked"}
  /\ \A d \in Setups, c \in Containers : AppNet \notin d[c].joined /\ \A e \in Service[c] : d[e] = d[c]
  /\ Asks \subseteq [port : PortKinds, addresses : Seq(AddressKinds)]

VARIABLES
  port,       \* no --port; or one that B declares, that it does not, or B declares none
  addresses   \* the address-like settings of A in order, by the host they name

vars == <<host, port, addresses>>

TypeOK ==
  /\ HostTypeOK
  /\ port \in PortKinds /\ addresses \in Seq(AddressKinds)
-----------------------------------------------------------------------------
(* The snapshot, as both sides read it.                                    *)
Attached(c) == IF box[c].mode \in {"none", "host"} THEN {box[c].mode} ELSE box[c].joined

\* container:<x> has the networks of x, whether x runs or not.
Effective(c) ==
  CASE box[c].mode = "gone" -> {}
    [] box[c].mode \in Containers -> IF Exists(box[c].mode) THEN Attached(box[c].mode) ELSE {}
    [] OTHER -> Attached(c)
Shared(s, t) == Effective(s) \cap Effective(t)

First(I) == CHOOSE i \in I : \A j \in I : i <= j

Replicas == {i \in DOMAIN Sources : Exists(Sources[i])}
Found == Replicas # {} /\ Exists(Target)
-----------------------------------------------------------------------------
(* The diagnosis.                                                          *)

\* Of a scaled service, the first container that runs.
Chosen ==
  LET up == {i \in Replicas : Running(Sources[i])}
  IN IF up # {} THEN Sources[First(up)] ELSE Sources[First(Replicas)]

StepContainers == IF Found /\ Running(Chosen) /\ Running(Target) THEN "PASS" ELSE "FAIL"

\* A published port is a declared one.
StepPort ==
  IF port = "unset" \/ ~Running(Target) THEN "SKIP"
  ELSE IF port = "listed" \/ box[Target].published # "no" THEN "PASS"
  ELSE IF port = "undeclared" THEN "WARN" ELSE "FAIL"

HostIgnored(s, t) == IF Shared(s, t) = {} THEN "FAIL" ELSE IF Shared(s, t) = {Bridge} THEN "WARN" ELSE "PASS"
StepNetwork(s, t) ==
  IF "none" \in {box[s].mode, box[t].mode} THEN "FAIL"
  ELSE IF "host" \in {box[s].mode, box[t].mode}
    THEN IF box[s].mode = "host" /\ box[t].published = "no" THEN "FAIL" ELSE "WARN"
  ELSE IF Shared(s, t) = {} THEN "FAIL" ELSE IF Shared(s, t) = {Bridge} THEN "WARN" ELSE "PASS"

\* daemon.json counts as well as the running bridge.
CustomOpen(n) == n # Bridge \/ (net[Bridge] = "open" /\ ~iccOff)
Talks(n) ==
  IF n = Bridge THEN net[Bridge] = "open" /\ ~iccOff
  ELSE n \in Networks => net[n] # "blocked"

StepIcc(s, t) ==
  IF {box[s].mode, box[t].mode} \cap {"none", "host"} # {} \/ Shared(s, t) = {} THEN "SKIP"
  ELSE IF \E n \in Shared(s, t) : Talks(n) THEN "PASS" ELSE "FAIL"

\* The first address that is not the target's name decides.
Odd == {i \in DOMAIN addresses : addresses[i] # "name"}
StepAddress(t) ==
  IF addresses = <<>> THEN "SKIP" ELSE IF Odd = {} THEN "PASS"
  ELSE CASE addresses[First(Odd)] = "self" -> "FAIL"
         [] addresses[First(Odd)] = "ip" -> IF box[t].published # "no" THEN "WARN" ELSE "FAIL"
         [] OTHER -> "WARN"

\* Without any container there is nothing to diagnose (precheck).
Steps ==
  IF \A c \in Containers : ~Exists(c) THEN <<>> ELSE IF ~Found THEN <<StepContainers>>
  ELSE LET s == Chosen
       IN <<StepContainers, StepPort, StepNetwork(s, Target), StepIcc(s, Target), StepAddress(Target)>>

LastRoot ==
  LET steps == Steps
  IN IF \E i \in DOMAIN steps : steps[i] = "FAIL"
     THEN CHOOSE i \in DOMAIN steps : steps[i] = "FAIL" /\ \A j \in DOMAIN steps : j > i => steps[j] # "FAIL" ELSE 0
Root ==
  LET steps == Steps
      failures == {i \in DOMAIN steps : steps[i] = "FAIL"}
  IN IF failures = {} THEN 0 ELSE First(failures)
-----------------------------------------------------------------------------
(* Rule NET-001.                                                           *)
RunningBridge == net[Bridge] = "blocked"
BridgeIccDisabled == net[Bridge] = "blocked" \/ iccOff
Usable(s, t) ==
  {n \in Shared(s, t) : ~(n = Bridge /\ BridgeIccDisabled) /\ ~(n \in Networks /\ net[n] = "blocked")}

Pair(s, t) ==
  IF "none" \in {box[s].mode, box[t].mode} THEN "FAIL"
  ELSE IF "host" \in {box[s].mode, box[t].mode}
    THEN IF box[s].mode = "host" /\ box[t].published = "no" THEN "FAIL" ELSE "WARN"
  ELSE IF Usable(s, t) = {} THEN "FAIL"
  ELSE IF Usable(s, t) = {Bridge} \/ (port = "unlisted" /\ box[t].published = "no") THEN "WARN" ELSE "PASS"

\* All containers of A must reach B, also those that do not run.
Best ==
  LET seen == {Pair(Sources[i], Target) : i \in Replicas}
  IN IF "PASS" \in seen THEN "PASS" ELSE IF "WARN" \in seen THEN "WARN" ELSE "FAIL"
Worst ==
  LET seen == {Pair(Sources[i], Target) : i \in Replicas}
  IN IF "FAIL" \in seen THEN "FAIL" ELSE IF "WARN" \in seen THEN "WARN" ELSE "PASS"
RuleVerdict == IF ~Found \/ ~Running(Target) THEN "FAIL" ELSE Worst

\* Both suggest a network of the target other than the default bridge.
Suggested(s, t) == Effective(t) \ {Bridge}
-----------------------------------------------------------------------------
(* The user follows the fix of the root cause, for now or in compose.      *)
KeepingMode(cs, n) ==
  [c \in Containers |-> IF c \in cs THEN [declared[c] EXCEPT !.joined = @ \cup {n}] ELSE declared[c]]
Declaring(cs, n) ==
  [c \in Containers |-> IF c \in cs
     THEN [declared[c] EXCEPT !.mode = "own", !.joined = @ \cup {n}] ELSE declared[c]]

ForNow(cs, n) ==
  /\ box' = Connected(box, cs, n) /\ net' = Available(n)
  /\ UNCHANGED <<declared, port, addresses>>
Persist(cs, n) ==
  /\ declared' = Declaring(cs, n) /\ box' = Created(box, declared', cs) /\ net' = Available(n)
  /\ UNCHANGED <<port, addresses>>

\* The network advised, one to be created if the target has none to offer.
Advised(s) == IF Suggested(s, Target) = {} THEN {AppNet} ELSE Suggested(s, Target) \cap Networks

\* docker start
Started(c) ==
  /\ box[c].mode # "gone" /\ (box[c].mode \in Containers => Running(box[c].mode))
  /\ box' = [box EXCEPT ![c].state = "running"]

FollowUp ==
  /\ ~Found
  /\ box' = LET b == Created(box, declared, {c \in Containers : ~Exists(c)})
            IN [c \in Containers |-> [b[c] EXCEPT !.state = "running"]]
  /\ UNCHANGED <<declared, net, port, addresses>>

FollowStart(s) ==
  /\ Started(IF Running(s) THEN Target ELSE s)
  /\ UNCHANGED <<declared, net, port, addresses>>

FollowPort == port' = "listed" /\ UNCHANGED <<box, declared, net, addresses>>

\* network_mode: none goes, for a network of the other side.
FollowNone(c, other) ==
  /\ box[c].mode = "none"
  /\ LET common == Effective(other) \cap Custom
     IN \E n \in IF common = {} THEN {AppNet} ELSE common : Persist(Service[c], n)

\* ports: "127.0.0.1:..."; what is published stays so.
Publishing(c) ==
  [declared EXCEPT ![c].published = IF @ = "no" THEN "loopback" ELSE @]

FollowHost(s) ==
  /\ box[s].mode = "host" /\ box[Target].mode # "none"
  /\ \/ \E n \in Advised(s) : Persist(Service[s] \cup Service[Target], n)
     \/ /\ declared' = Publishing(Target)
        /\ box' = Created(box, declared', Service[Target])
        /\ UNCHANGED <<net, port, addresses>>

FollowIsolated(s) ==
  /\ {box[s].mode, box[Target].mode} \cap {"none", "host"} = {}
  /\ \E n \in Advised(s) :
       \/ ForNow(IF Suggested(s, Target) = {} THEN {s, Target} ELSE {s}, n)
       \/ Persist(Service[s] \cup Service[Target], n)

FollowIcc(s) == ForNow({s, Target}, AppNet) \/ Persist(Service[s] \cup Service[Target], AppNet)

FollowAddress(s) ==
  /\ addresses' = [addresses EXCEPT ![First(Odd)] = "name"]
  /\ box' = Created(box, declared, Service[s])
  /\ UNCHANGED <<declared, net, port>>

Follow ==
  /\ UNCHANGED <<changes, iccOff>>
  /\ \/ FollowUp
     \/ Found /\ \E s \in {Chosen}, root \in {Root} :
          \/ root = 1 /\ FollowStart(s)
          \/ root = 2 /\ FollowPort
          \/ root = 3 /\ (FollowNone(s, Target) \/ (box[s].mode # "none" /\ FollowNone(Target, s)))
          \/ root = 3 /\ (FollowHost(s) \/ FollowIsolated(s))
          \/ root = 4 /\ FollowIcc(s)
          \/ root = 5 /\ FollowAddress(s)

\* The command of a failed NET-001: the target is started, or the first
\* container of A connected to a network of the target.  Which one fails, and
\* whether it has that network already, the command does not ask.
WithBridge(t) == Effective(t)
Offered(t) == Effective(t) \ {Bridge}
Failing == {i \in Replicas : Pair(Sources[i], Target) = "FAIL"}
FollowRule ==
  /\ Found /\ RuleVerdict = "FAIL"
  /\ \/ ~Running(Target) /\ Started(Target)
     \/ /\ Running(Target)
        /\ {box[Sources[First(Failing)]].mode, box[Target].mode} \cap {"none", "host"} = {}
        /\ \E n \in Offered(Target) \cap Networks : box' = Connected(box, {Sources[First(Replicas)]}, n)
  /\ UNCHANGED <<declared, net, iccOff, changes, port, addresses>>

Init == HostInit(Setups, Bridges) /\ \E ask \in Asks : port = ask.port /\ addresses = ask.addresses
Next == Follow \/ FollowRule \/ (HostNext /\ UNCHANGED <<port, addresses>>)
Spec == Init /\ [][Next]_vars

\* The user keeps following the advice.
FairSpec == Spec /\ WF_vars(Follow)
-----------------------------------------------------------------------------
(* Correctness.                                                            *)

\* Neither container lives in the network of a container that is gone, is
\* itself without a network list, or is the other's.
Ordinary(s, t) ==
  /\ \A c \in {s, t} : box[c].mode \in {"own", "none", "host"} \/ Links(Space(c)) # {}
  /\ Running(s) /\ Running(t) => Space(s) # Space(t)

\* If both containers run and step 4 passes, the source reaches the target at
\* an address of its own, not by a published port only (steps 1, 3 and 4).
NoFalsePass ==
  Found /\ StepContainers = "PASS" /\ Ordinary(Chosen, Target) /\ StepIcc(Chosen, Target) = "PASS"
    => Direct(Chosen, Target)

\* The ways nobody looks at: a port published on all addresses, from a container
\* through the IP of the host, and one published by the container whose network
\* the target shares.
Bypass(s, t) == ThroughHost(s, t) /\ (box[s].mode # "host" \/ box[t].mode # "own")

Cut(s, t) == ~Direct(s, t) /\ (Reaches(s, t) => Bypass(s, t))

\* Steps 3 and 4 blame the network only when the source cannot reach the target
\* but by a bypass, or will not be able to once dockerd has read daemon.json.
Shut(s, t) == StepNetwork(s, t) = "FAIL" \/ StepIcc(s, t) = "FAIL"
IccLoaded == iccOff => net[Bridge] = "blocked"
NoFalseAlarm ==
  Found /\ IccLoaded /\ Ordinary(Chosen, Target) /\ Shut(Chosen, Target) => Cut(Chosen, Target)

\* NET-001 passes a dependency only if every running container of A reaches B at
\* an address of its own, and fails it, while B runs, only if some container of A
\* does not, and has no way to B but a bypass.
RuleTrue ==
  Found /\ Running(Target) /\ (\A i \in Replicas : Ordinary(Sources[i], Target)) =>
    /\ RuleVerdict = "PASS" => \A i \in Replicas : Running(Sources[i]) => Direct(Sources[i], Target)
    /\ RuleVerdict = "FAIL" /\ IccLoaded => \E i \in Replicas : Cut(Sources[i], Target)

\* What the diagnosis of the running pair finds wrong with the network, the
\* rule reports as well; of a service with one container also conversely.
RuleAgrees ==
  Found /\ Running(Target) =>
    /\ Shut(Chosen, Target) => RuleVerdict = "FAIL"
    /\ RuleVerdict = "FAIL" /\ (\A i, j \in Replicas : i = j) => Shut(Chosen, Target)

\* Whoever keeps following the advice ends with nothing to follow, from any
\* setup in which no container shares the network of another.
Repaired ==
  (\A c \in Containers : declared[c].mode \notin Containers) => <>[](Root = 0)

\* The steps are in causal order (diagnostics/models.py 73-74): where the
\* containers are as compose declares them, a fix never brings an earlier
\* cause back.
Composed ==
  \A c \in Containers :
    /\ box[c].mode \notin Containers
    /\ Exists(c) => box[c] = Inspected(box[c].state, declared[c])
NeverBackwards ==
  [][Composed /\ changes' = changes => Root' = 0 \/ Root' >= Root]_vars

\* The command that NET-001 offers for "recovering right now" (dependency.py
\* 208) cuts no container of A off that could reach the target, and one that
\* has networks of its own, but none of the target's, is in one with it
\* afterwards if the networks of the target let containers talk.
Stranded(s) ==
  /\ Running(s) /\ Running(Target) /\ Ordinary(s, Target)
  /\ box[s].mode = "own" /\ Shared(s, Target) = {}
  /\ \A n \in Effective(Target) \cap Custom : net[n] = "open"
RuleRecovers ==
  [][FollowRule => \A i \in Replicas :
       /\ Reaches(Sources[i], Target) => Reaches(Sources[i], Target)'
       /\ i = First(Replicas) /\ Stranded(Sources[i]) => Direct(Sources[i], Target)']_vars

\* A failed dependency is really one that cannot communicate (dependency.py
\* 205): here also for containers that share the host's network, and by a port
\* that is published on all addresses (connectivity.py 553-566).
FailCannotCommunicate ==
  Found /\ Running(Target) /\ RuleVerdict = "FAIL" /\ IccLoaded
    => \E i \in Replicas : ~Reaches(Sources[i], Target)
=============================================================================
