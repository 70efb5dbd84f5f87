------------------------- MODULE Connectivity_proofs -------------------------
(***************************************************************************)
(* Connectivity for every number of containers and networks, whatever      *)
(* changes and whatever advice is followed.  That a network some container *)
(* is attached to exists (part of TypeOK) is what makes the verdicts say   *)
(* something about who reaches whom.                                       *)
(***************************************************************************)
EXTENDS Connectivity, FiniteSetTheorems, SequenceTheorems, TLAPS

\* A set of numbers that is not empty has a first one: among the initial
\* segments of Nat that end in it, one contains no other.
LEMMA FirstIn ==
  ASSUME NEW I \in SUBSET Nat, I # {}
  PROVE  First(I) \in I /\ \A j \in I : First(I) <= j
  <1> DEFINE Segments == {1 .. i : i \in I}
  <1>1. \A n \in Nat : 1 .. n \in FiniteSubsetsOf(Nat)
    BY FS_Interval DEF FiniteSubsetsOf
  <1>2. Segments \subseteq FiniteSubsetsOf(Nat) /\ Segments # {}  BY <1>1
  <1>3. IsWellFoundedOn(StrictSubsetOrdering(Nat), FiniteSubsetsOf(Nat))
    BY FS_StrictSubsetOrderingWellFounded
  <1>4. \E x \in Segments : \A y \in Segments : <<y, x>> \notin StrictSubsetOrdering(Nat)
    <2> HIDE DEF Segments
    <2> QED BY <1>2, <1>3, WFMin
  <1>5. PICK i \in I : \A j \in I : <<1 .. j, 1 .. i>> \notin StrictSubsetOrdering(Nat)
    BY <1>4
  <1>6. ASSUME NEW j \in I PROVE i <= j
    <2>1. SUFFICES ASSUME j < i PROVE FALSE  OBVIOUS
    <2>2. 1 .. j \subseteq 1 .. i /\ 1 .. i \subseteq Nat /\ i \in 1 .. i /\ i \notin 1 .. j  BY <2>1
    <2>3. <<1 .. j, 1 .. i>> \in StrictSubsetOrdering(Nat)  BY <2>2 DEF StrictSubsetOrdering
    <2> QED BY <2>3, <1>5
  <1> QED BY <1>6 DEF First

LEMMA SourcesAreContainers ==
  /\ DOMAIN Sources \in SUBSET Nat
  /\ \A i \in DOMAIN Sources : Sources[i] \in Containers /\ Sources[i] # Target
  BY ConnectivityAssumption

\* The container that is diagnosed is one of A.
LEMMA ChosenIsReplica == ASSUME Replicas # {} PROVE \E i \in Replicas : Chosen = Sources[i]
  <1> DEFINE up == {i \in Replicas : Running(Sources[i])}
  <1>1. Replicas \in SUBSET Nat /\ up \in SUBSET Nat  BY SourcesAreContainers DEF Replicas
  <1>2. First(Replicas) \in Replicas  BY <1>1, FirstIn
  <1>3. CASE up = {}  BY <1>2, <1>3 DEF Chosen
  <1>4. CASE up # {}
    <2>1. First(up) \in up  BY <1>1, <1>4, FirstIn
    <2>2. Chosen = Sources[First(up)]  BY <1>4 DEF Chosen
    <2> QED BY <2>1, <2>2
  <1> QED BY <1>3, <1>4

LEMMA ChosenIsContainer == ASSUME Found PROVE Chosen \in Containers /\ Chosen # Target
  BY ChosenIsReplica, SourcesAreContainers DEF Found, Replicas
-----------------------------------------------------------------------------
(* The diagnosis and the rule.                                             *)

LEMMA UsableTalks ==
  ASSUME TypeOK, NEW s \in Containers, NEW t \in Containers
  PROVE  Usable(s, t) = {n \in Shared(s, t) : Talks(n)}
  BY HostAssumption DEF Usable, Talks, BridgeIccDisabled, TypeOK, HostTypeOK, Networks

\* Of one pair both blame the network in the same cases: step 4 asks whether
\* some shared network talks, the rule whether some is left.
LEMMA SameVerdict ==
  ASSUME NEW s \in Containers, NEW t \in Containers, TypeOK
  PROVE  Shut(s, t) <=> Pair(s, t) = "FAIL"
  <1>1. Usable(s, t) = {n \in Shared(s, t) : Talks(n)}  BY UsableTalks
  <1>2. CASE "none" \in {box[s].mode, box[t].mode}
    BY <1>2 DEF Shut, Pair, StepNetwork
  <1>3. CASE "none" \notin {box[s].mode, box[t].mode} /\ "host" \in {box[s].mode, box[t].mode}
    BY <1>3 DEF Shut, Pair, StepNetwork, StepIcc
  <1>4. CASE box[s].mode \notin {"none", "host"} /\ box[t].mode \notin {"none", "host"}
    <2>1. Pair(s, t) = "FAIL" <=> Usable(s, t) = {}  BY <1>4 DEF Pair
    <2>2. StepNetwork(s, t) = "FAIL" <=> Shared(s, t) = {}  BY <1>4 DEF StepNetwork
    <2>3. StepIcc(s, t) = "FAIL" <=> Shared(s, t) # {} /\ ~ \E n \in Shared(s, t) : Talks(n)
      BY <1>4 DEF StepIcc
    <2> QED BY <1>1, <2>1, <2>2, <2>3 DEF Shut
  <1> QED BY <1>2, <1>3, <1>4

LEMMA WorstFails == Worst = "FAIL" <=> \E i \in Replicas : Pair(Sources[i], Target) = "FAIL"
  BY DEF Worst

LEMMA AgreeNow == TypeOK => RuleAgrees
  <1> SUFFICES ASSUME TypeOK, Found, Running(Target) PROVE
        /\ Shut(Chosen, Target) => RuleVerdict = "FAIL"
        /\ RuleVerdict = "FAIL" /\ (\A i, j \in Replicas : i = j) => Shut(Chosen, Target)
    BY DEF RuleAgrees
  <1>1. PICK i \in Replicas : Chosen = Sources[i]  BY ChosenIsReplica DEF Found
  <1>2. Chosen \in Containers /\ Target \in Containers  BY ChosenIsContainer, ConnectivityAssumption
  <1>3. Shut(Chosen, Target) <=> Pair(Sources[i], Target) = "FAIL"  BY <1>1, <1>2, SameVerdict
  <1>4. RuleVerdict = Worst  BY DEF RuleVerdict
  <1>5. Shut(Chosen, Target) => RuleVerdict = "FAIL"  BY <1>3, <1>4, WorstFails
  <1>6. ASSUME RuleVerdict = "FAIL", \A k, j \in Replicas : k = j PROVE Shut(Chosen, Target)
    BY <1>3, <1>4, <1>6, WorstFails
  <1> QED BY <1>5, <1>6
-----------------------------------------------------------------------------
(* The diagnosis and the truth.                                            *)

\* Who is in whose namespace, for a container with networks of its own.
LEMMA OwnNetworks ==
  ASSUME TypeOK, NEW s \in Containers, NEW t \in Containers, Ordinary(s, t), Running(s), Running(t),
         NEW c \in {s, t}, box[c].mode \notin {"none", "host"}
  PROVE  Space(c) \in Containers /\ Links(Space(c)) = Effective(c) /\ Effective(c) \subseteq Networks
         /\ \A n \in Effective(c) : net[n] # "absent"
  <1>0. c \in Containers /\ box[c].mode \in Modes \cup {"gone"}  BY DEF TypeOK, HostTypeOK
  <1>1. CASE box[c].mode = "own"
    <2>1. box[c].mode \notin Containers  BY <1>1, HostAssumption
    <2>2. Space(c) = c  BY <1>1 DEF Space
    <2>3. Effective(c) = box[c].joined  BY <1>1, <2>1 DEF Effective, Attached
    <2> QED BY <1>0, <1>1, <2>2, <2>3 DEF Links, TypeOK, HostTypeOK
  <1>2. CASE box[c].mode # "own"
    <2>1. Links(Space(c)) # {}  BY <1>2 DEF Ordinary
    <2> DEFINE o == Space(c)
    <2>2. o \in Containers /\ box[o].mode = "own"  BY <2>1 DEF Links
    <2>3. box[c].mode # "gone"  BY <2>2, HostAssumption DEF Space
    <2>4. o = box[c].mode /\ Running(o)  BY <1>0, <1>2, <2>2, <2>3, HostAssumption DEF Space, Modes
    <2>5. Exists(o)  BY <2>4 DEF Running, Exists
    <2>6. Effective(c) = box[o].joined  BY <2>2, <2>3, <2>4, <2>5 DEF Effective, Attached
    <2> QED BY <2>2, <2>6 DEF Links, TypeOK, HostTypeOK
  <1> QED BY <1>1, <1>2

\* A network that talks is a way.
LEMMA TalkingReaches ==
  ASSUME TypeOK, NEW s \in Containers, NEW t \in Containers, Ordinary(s, t), Running(s), Running(t),
         {box[s].mode, box[t].mode} \cap {"none", "host"} = {},
         NEW n \in Shared(s, t), Talks(n)
  PROVE  Direct(s, t)
  <1>1. n \in Links(Space(s)) \cap Links(Space(t)) /\ n \in Networks /\ net[n] # "absent"
        /\ Space(s) \in Containers /\ Space(t) \in Containers
    BY OwnNetworks DEF Shared
  <1>2. net[n] = "open"  BY <1>1 DEF Talks, TypeOK, HostTypeOK
  <1> QED BY <1>1, <1>2, HostAssumption DEF Direct

\* Where steps 3 and 4 see no way there is none but a bypass.
LEMMA ShutBlocks ==
  ASSUME TypeOK, IccLoaded, NEW s \in Containers, NEW t \in Containers, Ordinary(s, t), Shut(s, t)
  PROVE  Cut(s, t)
  <1> SUFFICES ASSUME Running(s), Running(t) PROVE Cut(s, t)
    BY DEF Cut, Reaches, Direct, ThroughHost
  <1>2. Space(s) # Space(t)  BY DEF Ordinary
  <1>3. \A c \in {s, t} : box[c].mode = "none" => Space(c) = c /\ Links(c) = {} /\ c # "host"
    BY HostAssumption DEF Space, Links
  <1>4. \A c \in {s, t} : box[c].mode = "host" => Space(c) = "host"  BY DEF Space
  <1>5. Links("host") = {}  BY HostAssumption DEF Links
  <1>6. CASE "none" \in {box[s].mode, box[t].mode}
    <2>1. ~Direct(s, t)  BY <1>2, <1>3, <1>5, <1>6 DEF Direct
    <2>2. ~ThroughHost(s, t)  BY <1>3, <1>6 DEF ThroughHost
    <2> QED BY <2>1, <2>2 DEF Cut, Reaches
  <1>7. CASE "none" \notin {box[s].mode, box[t].mode} /\ "host" \in {box[s].mode, box[t].mode}
    <2>1. StepIcc(s, t) # "FAIL"  BY <1>7 DEF StepIcc
    <2>2. box[s].mode = "host" /\ box[t].published = "no"  BY <2>1, <1>7 DEF Shut, StepNetwork
    <2>3. Space(s) = "host" /\ ~Direct(s, t)  BY <1>2, <1>4, <1>5, <2>2 DEF Direct
    <2>4. ASSUME ThroughHost(s, t) PROVE box[t].mode # "own"
      <3>1. box[t].mode = "own" => Space(t) = t  BY DEF Space
      <3> QED BY <2>2, <2>3, <2>4, <3>1, <1>5 DEF ThroughHost
    <2> QED BY <2>3, <2>4 DEF Cut, Reaches, Bypass
  <1>8. CASE box[s].mode \notin {"none", "host"} /\ box[t].mode \notin {"none", "host"}
    <2>1. /\ Space(s) \in Containers /\ Space(t) \in Containers
          /\ Links(Space(s)) = Effective(s) /\ Links(Space(t)) = Effective(t) /\ Effective(s) \subseteq Networks
      BY <1>8, OwnNetworks
    <2>2. ASSUME Direct(s, t) PROVE FALSE
      <3>1. PICK n \in Shared(s, t) : n \in Networks /\ net[n] = "open"
        BY <1>2, <2>1, <2>2, HostAssumption DEF Direct, Shared
      <3>2. Talks(n)  BY <3>1 DEF Talks, IccLoaded
      <3>3. StepNetwork(s, t) # "FAIL"  BY <1>8, <3>1 DEF StepNetwork
      <3>4. StepIcc(s, t) # "FAIL"  BY <1>8, <3>1, <3>2 DEF StepIcc
      <3> QED BY <3>3, <3>4 DEF Shut
    <2> QED BY <1>8, <2>2 DEF Cut, Reaches, Bypass
  <1> QED BY <1>6, <1>7, <1>8

LEMMA PassNow == TypeOK => NoFalsePass
  <1> SUFFICES ASSUME TypeOK, Found, StepContainers = "PASS", Ordinary(Chosen, Target),
                      StepIcc(Chosen, Target) = "PASS"
               PROVE  Direct(Chosen, Target)
    BY DEF NoFalsePass
  <1>1. Chosen \in Containers /\ Target \in Containers /\ Running(Chosen) /\ Running(Target)
    BY ChosenIsContainer, ConnectivityAssumption DEF StepContainers
  <1>2. {box[Chosen].mode, box[Target].mode} \cap {"none", "host"} = {}
        /\ \E n \in Shared(Chosen, Target) : Talks(n)
    BY DEF StepIcc
  <1> QED BY <1>1, <1>2, TalkingReaches

LEMMA AlarmNow == TypeOK => NoFalseAlarm
  BY ChosenIsContainer, ConnectivityAssumption, ShutBlocks DEF NoFalseAlarm

LEMMA RuleNow == TypeOK => RuleTrue
  <1> SUFFICES ASSUME TypeOK, Found, Running(Target), \A i \in Replicas : Ordinary(Sources[i], Target)
               PROVE  /\ RuleVerdict = "PASS" => \A i \in Replicas : Running(Sources[i]) => Direct(Sources[i], Target)
                      /\ RuleVerdict = "FAIL" /\ IccLoaded => \E i \in Replicas : Cut(Sources[i], Target)
    BY DEF RuleTrue
  <1>1. Target \in Containers /\ \A i \in Replicas : Sources[i] \in Containers
    BY SourcesAreContainers, ConnectivityAssumption DEF Replicas
  <1>2. RuleVerdict = Worst  BY DEF RuleVerdict
  <1>3. ASSUME RuleVerdict = "PASS", NEW i \in Replicas, Running(Sources[i]) PROVE Direct(Sources[i], Target)
    <2> DEFINE s == Sources[i]
    <2>1. Pair(s, Target) \notin {"FAIL", "WARN"}  BY <1>2, <1>3 DEF Worst
    <2>2. {box[s].mode, box[Target].mode} \cap {"none", "host"} = {} /\ Usable(s, Target) # {}
      BY <2>1 DEF Pair
    <2>3. \E n \in Shared(s, Target) : Talks(n)  BY <1>1, <2>2, UsableTalks
    <2> QED BY <1>1, <1>3, <2>2, <2>3, TalkingReaches
  <1>4. ASSUME RuleVerdict = "FAIL", IccLoaded PROVE \E i \in Replicas : Cut(Sources[i], Target)
    <2>1. PICK i \in Replicas : Pair(Sources[i], Target) = "FAIL"  BY <1>2, <1>4, WorstFails
    <2> QED BY <1>1, <1>4, <2>1, SameVerdict, ShutBlocks
  <1> QED BY <1>3, <1>4
-----------------------------------------------------------------------------
(* Type correctness: whatever happens to the host and whatever is advised, *)
(* no container is attached to, or declared on, a network that is absent.  *)

Inspections == [state : {"missing", "stopped", "running"}, mode : Modes \cup {"gone"},
                joined : SUBSET Networks, published : Publications]
Boxes == [Containers -> Inspections]
Declarations == [Containers -> Settings]
Nets == [Networks -> {"absent", "open", "blocked"}]

\* A set of containers is attached to networks that exist.
There(b, m) == \A c \in Containers : \A n \in b[c].joined : m[n] # "absent"

LEMMA HostParts ==
  HostTypeOK <=> /\ box \in Boxes /\ declared \in Declarations /\ net \in Nets /\ net[Bridge] # "absent"
                 /\ There(box, net) /\ There(declared, net) /\ iccOff \in BOOLEAN /\ changes \in 0 .. MaxChanges
  BY DEF HostTypeOK, Boxes, Inspections, Declarations, Nets, There

LEMMA CreatedType ==
  ASSUME NEW b \in Boxes, NEW d \in Declarations, NEW m, NEW cs \in SUBSET Containers, There(b, m), There(d, m)
  PROVE  Created(b, d, cs) \in Boxes /\ There(Created(b, d, cs), m)
  <1> DEFINE r == Created(b, d, cs)
  <1>1. r = [c \in Containers |-> r[c]]  BY DEF Created
  <1>2. ASSUME NEW c \in Containers
        PROVE  /\ r[c] \in Inspections
               /\ \A n \in r[c].joined : m[n] # "absent"
    <2>1. CASE c \in cs
      <3>1. r[c] = Inspected("running", d[c])  BY <2>1 DEF Created
      <3> QED BY <3>1 DEF Inspected, Inspections, Declarations, Settings, There
    <2>2. CASE c \notin cs /\ b[c].mode \in cs
      <3>1. r[c] = [b[c] EXCEPT !.mode = "gone"]  BY <2>2 DEF Created
      <3> QED BY <3>1 DEF Boxes, Inspections, There
    <2>3. CASE c \notin cs /\ b[c].mode \notin cs
      <3>1. r[c] = b[c]  BY <2>3 DEF Created
      <3> QED BY <3>1 DEF Boxes, There
    <2> QED BY <2>1, <2>2, <2>3
  <1> HIDE DEF r
  <1>3. r \in Boxes  BY <1>1, <1>2 DEF Boxes
  <1>4. There(r, m)  BY <1>2 DEF There
  <1> QED BY <1>3, <1>4 DEF r

LEMMA ConnectedType ==
  ASSUME NEW b \in Boxes, NEW m, There(b, m), NEW cs, NEW n \in Networks, m[n] # "absent"
  PROVE  Connected(b, cs, n) \in Boxes /\ There(Connected(b, cs, n), m)
  <1> DEFINE r == Connected(b, cs, n)
  <1>1. r = [c \in Containers |-> r[c]]  BY DEF Connected
  <1>2. ASSUME NEW c \in Containers
        PROVE  /\ r[c] \in Inspections
               /\ \A k \in r[c].joined : m[k] # "absent"
    <2>1. r[c] = b[c] \/ r[c] = [b[c] EXCEPT !.joined = @ \cup {n}]  BY DEF Connected
    <2> QED BY <2>1 DEF Boxes, Inspections, There
  <1> HIDE DEF r
  <1>3. r \in Boxes  BY <1>1, <1>2 DEF Boxes
  <1>4. There(r, m)  BY <1>2 DEF There
  <1> QED BY <1>3, <1>4 DEF r

LEMMA DeclaringType ==
  ASSUME declared \in Declarations, NEW m, There(declared, m), NEW cs, NEW n \in Networks, m[n] # "absent"
  PROVE  Declaring(cs, n) \in Declarations /\ There(Declaring(cs, n), m)
  <1> DEFINE r == Declaring(cs, n)
  <1>1. r = [c \in Containers |-> r[c]]  BY DEF Declaring
  <1>2. ASSUME NEW c \in Containers
        PROVE  r[c] \in Settings /\ \A k \in r[c].joined : m[k] # "absent"
    <2>1. declared[c] \in Settings  BY DEF Declarations
    <2>2. CASE c \notin cs  BY <2>1, <2>2 DEF Declaring, There
    <2>3. CASE c \in cs
      <3>1. r[c] = [declared[c] EXCEPT !.mode = "own", !.joined = @ \cup {n}]  BY <2>3 DEF Declaring
      <3>2. r[c] = [mode |-> "own", joined |-> declared[c].joined \cup {n}, published |-> declared[c].published]
        BY <2>1, <3>1 DEF Settings
      <3> QED BY <2>1, <3>2 DEF Settings, Modes, There
    <2> QED BY <2>2, <2>3
  <1> HIDE DEF r
  <1>3. r \in Declarations  BY <1>1, <1>2 DEF Declarations
  <1>4. There(r, m)  BY <1>2 DEF There
  <1> QED BY <1>3, <1>4 DEF r

LEMMA AvailableType ==
  ASSUME net \in Nets, net[Bridge] # "absent", NEW n \in Networks
  PROVE  /\ Available(n) \in Nets /\ Available(n)[Bridge] # "absent" /\ Available(n)[n] # "absent"
         /\ \A k \in Networks : net[k] # "absent" => Available(n)[k] # "absent"
  BY DEF Available, Nets, Networks

LEMMA InitType == Init => TypeOK
  <1> SUFFICES ASSUME Init PROVE TypeOK  OBVIOUS
  <1>1. declared \in Declarations /\ \A c \in Containers : AppNet \notin declared[c].joined
    BY ConnectivityAssumption DEF Init, HostInit, Declarations
  <1>2. PICK f \in [Networks -> Bridges] : net = [n \in Networks |-> IF n = AppNet THEN "absent" ELSE f[n]]
    BY DEF Init, HostInit
  <1>3. net \in Nets /\ \A n \in Networks : n # AppNet => net[n] # "absent"
    BY <1>2, ConnectivityAssumption DEF Nets
  <1>4. net[Bridge] # "absent"  BY <1>3, HostAssumption DEF Networks
  <1>5. There(declared, net)  BY <1>1, <1>3 DEF There, Declarations, Settings
  <1>6. box \in Boxes /\ There(box, net)
    BY <1>1, <1>5 DEF Init, HostInit, Inspected, Boxes, Inspections, Declarations, Settings, There
  <1>7. iccOff \in BOOLEAN /\ changes \in 0 .. MaxChanges  BY HostAssumption DEF Init, HostInit
  <1>8. port \in PortKinds /\ addresses \in Seq(AddressKinds)
    BY ConnectivityAssumption DEF Init
  <1> QED BY <1>1, <1>3, <1>4, <1>5, <1>6, <1>7, <1>8, HostParts DEF TypeOK

LEMMA BoxParts == ASSUME TypeOK PROVE
  /\ box \in Boxes /\ declared \in Declarations /\ net \in Nets /\ net[Bridge] # "absent"
  /\ There(box, net) /\ There(declared, net) /\ iccOff \in BOOLEAN /\ changes \in 0 .. MaxChanges
  /\ port \in PortKinds /\ addresses \in Seq(AddressKinds)
  BY HostParts DEF TypeOK

LEMMA HostStepType == ASSUME TypeOK, HostNext, UNCHANGED <<port, addresses>> PROVE TypeOK'
  <1> DEFINE Kept == /\ Change /\ box' \in Boxes /\ There(box', net')
                     /\ net' \in Nets /\ net'[Bridge] # "absent" /\ There(declared, net') /\ iccOff' \in BOOLEAN
  <1> USE BoxParts
  <1>1. ASSUME NEW c \in Containers, Stop(c) PROVE Kept
    <2>1. box' = [box EXCEPT ![c].state = "stopped"] /\ Change /\ UNCHANGED <<net, iccOff>>  BY <1>1 DEF Stop
    <2>2. box' \in Boxes  BY <2>1 DEF Boxes, Inspections
    <2>3. There(box', net)  BY <2>1 DEF Boxes, Inspections, There
    <2> QED BY <2>1, <2>2, <2>3
  <1>2. ASSUME NEW c \in Containers, Remove(c) PROVE Kept
    <2> DEFINE b == Created(box, declared, {c})
    <2>1. b \in Boxes /\ There(b, net)  BY CreatedType
    <2>2. box' = [b EXCEPT ![c].state = "missing"] /\ Change /\ UNCHANGED <<net, iccOff>>  BY <1>2 DEF Remove
    <2> HIDE DEF b
    <2>3. box' \in Boxes  BY <2>1, <2>2 DEF Boxes, Inspections
    <2>4. There(box', net)  BY <2>1, <2>2 DEF Boxes, Inspections, There
    <2> QED BY <2>2, <2>3, <2>4
  <1>3. ASSUME NEW c \in Containers, ForceRecreate(c) PROVE Kept
    <2>1. Service[c] \in SUBSET Containers  BY HostAssumption
    <2>2. Created(box, declared, Service[c]) \in Boxes /\ There(Created(box, declared, Service[c]), net)
      BY <2>1, CreatedType
    <2> QED BY <1>3, <2>2 DEF ForceRecreate
  <1>4. ASSUME NEW c \in Containers, RunByHand(c) PROVE Kept
    <2> DEFINE d == [declared EXCEPT ![c] = [mode |-> "own", joined |-> {Bridge}, published |-> "no"]]
    <2>1. d \in Declarations  BY DEF Declarations, Settings, Modes, Networks, Publications
    <2>2. There(d, net)  BY DEF Declarations, There
    <2>3. box' = Created(box, d, {c}) /\ Change /\ UNCHANGED <<net, iccOff>>  BY <1>4 DEF RunByHand
    <2> HIDE DEF d
    <2>4. box' \in Boxes /\ There(box', net)  BY <2>1, <2>2, <2>3, CreatedType
    <2> QED BY <2>3, <2>4
  <1>5. ASSUME NEW c \in Containers, NEW n \in Networks, Disconnect(c, n) PROVE Kept
    <2>1. box' = [box EXCEPT ![c].joined = @ \ {n}] /\ Change /\ UNCHANGED <<net, iccOff>>  BY <1>5 DEF Disconnect
    <2>2. box' \in Boxes  BY <2>1 DEF Boxes, Inspections
    <2>3. There(box', net)  BY <2>1 DEF Boxes, Inspections, There
    <2> QED BY <2>1, <2>2, <2>3
  <1>6. ASSUME EditDaemon PROVE Kept
    BY <1>6 DEF EditDaemon
  <1>7. ASSUME RestartDockerd PROVE Kept
    <2>1. net' = [net EXCEPT ![Bridge] = IF iccOff THEN "blocked" ELSE "open"]
          /\ Change /\ UNCHANGED <<box, iccOff>>
      BY <1>7 DEF RestartDockerd
    <2>2. net' \in Nets /\ net'[Bridge] # "absent" /\ \A k \in Networks : net[k] # "absent" => net'[k] # "absent"
      BY <2>1 DEF Nets, Networks
    <2>3. There(box, net') /\ There(declared, net')
      BY <2>2 DEF There, Boxes, Inspections, Declarations, Settings
    <2> QED BY <2>1, <2>2, <2>3
  <1>8. Kept  BY <1>1, <1>2, <1>3, <1>4, <1>5, <1>6, <1>7 DEF HostNext
  <1>9. declared' = declared /\ changes' \in 0 .. MaxChanges  BY <1>8, HostAssumption DEF Change
  <1> QED BY <1>8, <1>9 DEF TypeOK, HostTypeOK, Boxes, Inspections, Declarations, Nets, There
-----------------------------------------------------------------------------
LEMMA AdvisedExist ==
  /\ \A s \in Containers : Advised(s) \subseteq Networks
  /\ AppNet \in Networks
  BY HostAssumption DEF Advised, Networks

LEMMA ForNowType ==
  ASSUME TypeOK, NEW cs, NEW n \in Networks, ForNow(cs, n), UNCHANGED <<changes, iccOff>> PROVE TypeOK'
  <1> USE BoxParts
  <1>1. net' = Available(n) /\ box' = Connected(box, cs, n) /\ UNCHANGED <<declared, port, addresses>>
    BY DEF ForNow
  <1>2. /\ net' \in Nets /\ net'[Bridge] # "absent" /\ net'[n] # "absent"
        /\ \A k \in Networks : net[k] # "absent" => net'[k] # "absent"
    BY <1>1, AvailableType
  <1>3. There(box, net') /\ There(declared, net')
    BY <1>2 DEF There, Boxes, Inspections, Declarations, Settings
  <1>4. box' \in Boxes /\ There(box', net')  BY <1>1, <1>2, <1>3, ConnectedType
  <1> QED BY <1>1, <1>2, <1>3, <1>4 DEF TypeOK, HostTypeOK, Boxes, Inspections, Declarations, Nets, There

LEMMA PersistType ==
  ASSUME TypeOK, NEW cs \in SUBSET Containers, NEW n \in Networks, Persist(cs, n), UNCHANGED <<changes, iccOff>>
  PROVE  TypeOK'
  <1> USE BoxParts
  <1>1. /\ net' = Available(n) /\ declared' = Declaring(cs, n) /\ box' = Created(box, declared', cs)
        /\ UNCHANGED <<port, addresses>>
    BY DEF Persist
  <1>2. /\ net' \in Nets /\ net'[Bridge] # "absent" /\ net'[n] # "absent"
        /\ \A k \in Networks : net[k] # "absent" => net'[k] # "absent"
    BY <1>1, AvailableType
  <1>3. There(box, net') /\ There(declared, net')
    BY <1>2 DEF There, Boxes, Inspections, Declarations, Settings
  <1>4. declared' \in Declarations /\ There(declared', net')  BY <1>1, <1>2, <1>3, DeclaringType
  <1>5. box' \in Boxes /\ There(box', net')  BY <1>1, <1>3, <1>4, CreatedType
  <1> QED BY <1>1, <1>2, <1>4, <1>5 DEF TypeOK, HostTypeOK, Boxes, Inspections, Declarations, Nets, There

LEMMA StartedType ==
  ASSUME TypeOK, NEW c \in Containers, Started(c)
  PROVE  box' \in Boxes /\ There(box', net)
  <1> USE BoxParts
  <1>1. box' = [box EXCEPT ![c].state = "running"]  BY DEF Started
  <1>2. box' \in Boxes  BY <1>1 DEF Boxes, Inspections
  <1>3. There(box', net)  BY <1>1 DEF Boxes, Inspections, There
  <1> QED BY <1>2, <1>3

\* The container the rule's command is about.
LEMMA FirstReplica == ASSUME Found PROVE Sources[First(Replicas)] \in Containers /\ First(Replicas) \in Replicas
  <1>1. Replicas \in SUBSET Nat  BY SourcesAreContainers DEF Replicas
  <1> QED BY <1>1, FirstIn, SourcesAreContainers DEF Found, Replicas

LEMMA FollowRuleType == ASSUME TypeOK, FollowRule PROVE TypeOK'
  <1> USE BoxParts
  <1>1. UNCHANGED <<declared, net, iccOff, changes, port, addresses>>  BY DEF FollowRule
  <1>2. CASE Started(Target)
    <2>1. box' \in Boxes /\ There(box', net)  BY <1>2, StartedType, ConnectivityAssumption
    <2> QED BY <1>1, <2>1 DEF TypeOK, HostTypeOK, Boxes, Inspections, Declarations, Nets, There
  <1>3. CASE \E n \in Offered(Target) \cap Networks : box' = Connected(box, {Sources[First(Replicas)]}, n)
    <2>1. PICK n \in Networks : n \in Offered(Target) /\ box' = Connected(box, {Sources[First(Replicas)]}, n)
      BY <1>3
    <2>2. net[n] # "absent"
      <3>1. n \in Effective(Target)  BY <2>1 DEF Offered
      <3>2. Target \in Containers  BY ConnectivityAssumption
      <3>3. \E c \in Containers : n \in Attached(c)  BY <3>1, <3>2 DEF Effective
      <3>4. n \notin {"none", "host"}  BY <2>1, HostAssumption DEF Networks, Bridge
      <3>5. \E c \in Containers : n \in box[c].joined  BY <3>3, <3>4 DEF Attached
      <3> QED BY <3>5 DEF There
    <2>3. box' \in Boxes /\ There(box', net)  BY <2>1, <2>2, ConnectedType
    <2> QED BY <1>1, <2>3 DEF TypeOK, HostTypeOK, Boxes, Inspections, Declarations, Nets, There
  <1> QED BY <1>2, <1>3 DEF FollowRule

LEMMA FollowType == ASSUME TypeOK, Follow PROVE TypeOK'
  <1> USE BoxParts
  <1>0. UNCHANGED <<changes, iccOff>>  BY DEF Follow
  <1>1. Target \in Containers /\ \A c \in Containers : Service[c] \in SUBSET Containers
    BY HostAssumption, ConnectivityAssumption
  <1> DEFINE Kept == /\ box' \in Boxes /\ There(box', net) /\ declared' \in Declarations /\ There(declared', net)
                     /\ net' = net /\ port' \in PortKinds /\ addresses' \in Seq(AddressKinds)
  <1>2. ASSUME Kept PROVE TypeOK'
    BY <1>0, <1>2 DEF TypeOK, HostTypeOK, Boxes, Inspections, Declarations, Nets, There
  <1>3. ASSUME FollowUp PROVE Kept
    <2> DEFINE b == Created(box, declared, {c \in Containers : ~Exists(c)})
    <2>1. b \in Boxes /\ There(b, net)  BY CreatedType
    <2>2. box' = [c \in Containers |-> [b[c] EXCEPT !.state = "running"]]
          /\ UNCHANGED <<declared, net, port, addresses>>
      BY <1>3 DEF FollowUp
    <2> HIDE DEF b
    <2>3. box' \in Boxes  BY <2>1, <2>2 DEF Boxes, Inspections
    <2>4. There(box', net)  BY <2>1, <2>2 DEF Boxes, Inspections, There
    <2> QED BY <2>2, <2>3, <2>4
  <1>4. ASSUME Found PROVE Chosen \in Containers  BY <1>4, ChosenIsContainer
  <1>5. ASSUME NEW s \in Containers, FollowStart(s) PROVE Kept
    <2>1. PICK c \in Containers : Started(c) /\ UNCHANGED <<declared, net, port, addresses>>
      BY <1>1, <1>5 DEF FollowStart
    <2> QED BY <2>1, StartedType
  <1>6. ASSUME FollowPort PROVE Kept
    BY <1>6 DEF FollowPort, PortKinds
  <1>7. ASSUME NEW c \in Containers, NEW s \in Containers, FollowNone(c, s) PROVE TypeOK'
    <2>1. PICK n \in Networks : Persist(Service[c], n)
      BY <1>7, AdvisedExist DEF FollowNone, Networks
    <2> QED BY <1>0, <1>1, <2>1, PersistType
  <1>8. ASSUME NEW s \in Containers, FollowHost(s) PROVE TypeOK'
    <2>1. CASE \E n \in Advised(s) : Persist(Service[s] \cup Service[Target], n)
      BY <1>0, <1>1, <2>1, AdvisedExist, PersistType
    <2>2. CASE /\ declared' = Publishing(Target)
               /\ box' = Created(box, declared', Service[Target])
               /\ UNCHANGED <<net, port, addresses>>
      <3>1. declared' \in Declarations  BY <1>1, <2>2 DEF Declarations, Settings, Publishing, Publications
      <3>2. There(declared', net)  BY <1>1, <2>2 DEF Declarations, Settings, There, Publishing
      <3>3. box' \in Boxes /\ There(box', net)  BY <1>1, <2>2, <3>1, <3>2, CreatedType
      <3> QED BY <1>2, <2>2, <3>1, <3>2, <3>3
    <2> QED BY <1>8, <2>1, <2>2 DEF FollowHost
  <1>9. ASSUME NEW s \in Containers, FollowIsolated(s) PROVE TypeOK'
    <2>1. PICK n \in Networks :
            \/ \E cs \in SUBSET Containers : ForNow(cs, n)
            \/ Persist(Service[s] \cup Service[Target], n)
      BY <1>1, <1>9, AdvisedExist DEF FollowIsolated
    <2> QED BY <1>0, <1>1, <2>1, ForNowType, PersistType
  <1>10. ASSUME NEW s \in Containers, FollowIcc(s) PROVE TypeOK'
    BY <1>0, <1>1, <1>10, AdvisedExist, ForNowType, PersistType DEF FollowIcc
  <1>11. ASSUME NEW s \in Containers, FollowAddress(s) PROVE Kept
    <2>1. box' = Created(box, declared, Service[s]) /\ UNCHANGED <<declared, net, port>>
      BY <1>11 DEF FollowAddress
    <2>2. addresses' = [addresses EXCEPT ![First(Odd)] = "name"]  BY <1>11 DEF FollowAddress
    <2>3. addresses \in [1 .. Len(addresses) -> AddressKinds] /\ Len(addresses) \in Nat  OBVIOUS
    <2> DEFINE m == Len(addresses)  i == First(Odd)
    <2>4. addresses' \in [1 .. m -> AddressKinds]
      <3> HIDE DEF m, i
      <3> QED BY <2>2, <2>3 DEF AddressKinds, m, i
    <2>5. addresses' \in Seq(AddressKinds)  BY <2>3, <2>4, SeqDef
    <2> QED BY <1>1, <2>1, <2>5, CreatedType
  <1> QED BY <1>1, <1>2, <1>3, <1>4, <1>5, <1>6, <1>7, <1>8, <1>9, <1>10, <1>11 DEF Follow
-----------------------------------------------------------------------------
(* The theorems.                                                           *)

\* The variables stay within their types, and no container is attached to a
\* network that is not there, whatever happens and whatever advice is followed.
THEOREM TypeCorrect == Spec => []TypeOK
  <1>1. TypeOK /\ [Next]_vars => TypeOK'
    <2> SUFFICES ASSUME TypeOK, [Next]_vars PROVE TypeOK'  OBVIOUS
    <2>1. CASE UNCHANGED vars
      BY <2>1 DEF vars, host, TypeOK, HostTypeOK
    <2> QED BY <2>1, HostStepType, FollowType, FollowRuleType DEF Next
  <1> QED BY InitType, <1>1, PTL DEF Spec

\* If the diagnosis sees both containers up and passes the network and icc, the
\* source reaches the target at an address of its own, not by a published port
\* only, for any containers, networks and changes.
THEOREM NoFalsePassHolds == Spec => []NoFalsePass
  BY TypeCorrect, PassNow, PTL

\* If the diagnosis blames the network or icc, the source does not reach the
\* target, or will not once dockerd has read its file, unless by a published
\* port it did not look at: one used from a container through the IP of the
\* host, or one of the container whose network the target shares.
THEOREM NoFalseAlarmHolds == Spec => []NoFalseAlarm
  BY TypeCorrect, AlarmNow, PTL

\* NET-001 passes only what works without a published port, and fails only what
\* does not work, or by a published port it did not look at.
THEOREM RuleTrueHolds == Spec => []RuleTrue
  BY TypeCorrect, RuleNow, PTL

\* The diagnosis and the rule, written apart from each other, agree.
THEOREM RuleAgreesHolds == Spec => []RuleAgrees
  BY TypeCorrect, AgreeNow, PTL
-----------------------------------------------------------------------------
(* The command of NET-001.                                                 *)

\* docker network connect takes nothing away.
LEMMA ConnectKeeps ==
  ASSUME TypeOK, NEW c, NEW n, box' = Connected(box, {c}, n), net' = net
  PROVE  /\ \A d \in Containers : Space(d)' = Space(d) /\ Running(d)' = Running(d)
         /\ \A space : Links(space) \subseteq Links(space)'
         /\ \A s, t \in Containers : Reaches(s, t) => Reaches(s, t)'
  <1> USE BoxParts
  <1>1. ASSUME NEW d \in Containers
        PROVE  /\ box'[d].mode = box[d].mode /\ box'[d].state = box[d].state
               /\ box'[d].published = box[d].published /\ box[d].joined \subseteq box'[d].joined
               /\ box[d].mode \in {"own", "none", "host", "gone"} \cup Containers
    <2>1. box'[d] = box[d] \/ box'[d] = [box[d] EXCEPT !.joined = @ \cup {n}]  BY DEF Connected
    <2> QED BY <2>1 DEF Boxes, Inspections, Modes
  <1>2. ASSUME NEW d \in Containers PROVE Space(d)' = Space(d) /\ Running(d)' = Running(d)
    <2>1. CASE box[d].mode \in {"own", "none", "host", "gone"}  BY <1>1, <2>1 DEF Space, Running
    <2>2. CASE box[d].mode \in Containers
      <3>1. {"own", "none", "host", "gone", "lost"} \cap Containers = {}  BY HostAssumption
      <3> QED BY <1>1, <2>2, <3>1 DEF Space, Running
    <2> QED BY <1>1, <2>1, <2>2
  <1>3. ASSUME NEW space PROVE Links(space) \subseteq Links(space)'
    BY <1>1 DEF Links
  <1>4. ASSUME NEW s \in Containers, NEW t \in Containers, Reaches(s, t) PROVE Reaches(s, t)'
    <2>1. /\ Running(s) /\ Running(t) /\ Running(s)' /\ Running(t)'
          /\ Space(s)' = Space(s) /\ Space(t)' = Space(t)
      BY <1>2, <1>4 DEF Reaches, Direct, ThroughHost
    <2>2. /\ Links(Space(s)) \subseteq Links(Space(s))' /\ Links(Space(t)) \subseteq Links(Space(t))'
      BY <1>3, <2>1
    <2>3. Direct(s, t) => Direct(s, t)'  BY <2>1, <2>2 DEF Direct
    <2>4. ASSUME ThroughHost(s, t) PROVE ThroughHost(s, t)'
      <3>1. Space(t) \in Containers  BY <2>4 DEF ThroughHost, Links
      <3>2. box'[Space(t)'].published = box[Space(t)].published  BY <1>1, <2>1, <3>1
      <3> QED BY <2>1, <2>2, <2>4, <3>2 DEF ThroughHost
    <2> QED BY <1>4, <2>3, <2>4 DEF Reaches
  <1> QED BY <1>2, <1>3, <1>4

\* The command NET-001 offers cuts nobody off, and brings a container that has
\* networks, but none of the target's, to it: for any containers and networks.
THEOREM RuleRecoversHolds == Spec => RuleRecovers
  <1>1. ASSUME TypeOK, FollowRule, NEW i \in Replicas, NEW s, s = Sources[i]
        PROVE  /\ Reaches(s, Target) => Reaches(s, Target)'
               /\ i = First(Replicas) /\ Stranded(s) => Direct(s, Target)'
    <2> USE BoxParts
    <2>0. Target \in Containers /\ s \in Containers /\ Sources[First(Replicas)] \in Containers
      BY <1>1, FirstReplica, SourcesAreContainers, ConnectivityAssumption DEF FollowRule, Replicas
    <2>1. CASE ~Running(Target)
      BY <2>1 DEF Reaches, Direct, ThroughHost, Stranded
    <2>2. CASE Running(Target)
      <3>1. PICK n \in Offered(Target) \cap Networks : box' = Connected(box, {Sources[First(Replicas)]}, n)
        BY <1>1, <2>2 DEF FollowRule
      <3>2. net' = net /\ box[Target].mode \notin {"none", "host"}  BY <1>1, <2>2 DEF FollowRule
      <3>3. Reaches(s, Target) => Reaches(s, Target)'
        BY <1>1, <2>0, <3>1, <3>2, ConnectKeeps
      <3>4. ASSUME i = First(Replicas), Stranded(s) PROVE Direct(s, Target)'
        <4>1. Space(s) = s /\ Running(s) /\ box[s].mode = "own"  BY <3>4 DEF Stranded, Space
        <4>2. box'[s].mode = "own" /\ n \in box'[s].joined
          <5>1. Exists(s) /\ box[s] \in Inspections  BY <1>1, <2>0, <4>1 DEF Exists, Running, Boxes
          <5>2. box'[s] = [box[s] EXCEPT !.joined = @ \cup {n}]
            BY <1>1, <2>0, <3>1, <3>4, <4>1, <5>1 DEF Connected, Exists
          <5> QED BY <4>1, <5>1, <5>2 DEF Inspections
        <4>3. Space(s)' = s  BY <4>2 DEF Space
        <4>4. n \in Links(s)'  BY <2>0, <4>2 DEF Links
        <4>5. /\ Space(Target) \in Containers /\ Links(Space(Target)) = Effective(Target)
              /\ n \in Effective(Target) /\ n \in Custom
          <5>1. n \in Effective(Target) /\ n \in Custom  BY <3>1 DEF Offered, Networks
          <5> QED BY <1>1, <2>0, <3>2, <3>4, <5>1, OwnNetworks DEF Stranded
        <4>6. net[n] = "open"  BY <3>4, <4>5 DEF Stranded
        <4>7. /\ Space(Target)' = Space(Target) /\ Running(Target)' /\ Running(s)'
              /\ n \in Links(Space(Target))'
          BY <1>1, <2>0, <2>2, <3>1, <3>2, <4>1, <4>5, ConnectKeeps
        <4> QED BY <2>0, <3>2, <4>3, <4>4, <4>5, <4>6, <4>7, HostAssumption DEF Direct
      <3> QED BY <3>3, <3>4
    <2> QED BY <2>1, <2>2
  <1>2. ASSUME TypeOK, [Next]_vars
        PROVE  [FollowRule => \A i \in Replicas :
                  /\ Reaches(Sources[i], Target) => Reaches(Sources[i], Target)'
                  /\ i = First(Replicas) /\ Stranded(Sources[i]) => Direct(Sources[i], Target)']_vars
    BY <1>1, <1>2
  <1> QED BY TypeCorrect, <1>2, PTL DEF Spec, RuleRecovers
-----------------------------------------------------------------------------
(* The order of the causes.                                                *)

\* The first k checks have not failed.
Clear(k) == \A j \in 1 .. k : Steps[j] # "FAIL"

\* The five checks.
FiveSteps ==
  <<StepContainers, StepPort, StepNetwork(Chosen, Target), StepIcc(Chosen, Target), StepAddress(Target)>>

LEMMA StepsWhenFound == Found => Steps = FiveSteps /\ DOMAIN Steps = 1 .. 5
  <1> SUFFICES ASSUME Found PROVE Steps = FiveSteps /\ DOMAIN Steps = 1 .. 5  OBVIOUS
  <1>1. \E c \in Containers : Exists(c)  BY ConnectivityAssumption DEF Found
  <1>2. Steps = FiveSteps  BY <1>1 DEF Steps, FiveSteps
  <1>3. DOMAIN FiveSteps = 1 .. 5  BY DEF FiveSteps
  <1> QED BY <1>2, <1>3

\* What comes before the root cause has not failed.
LEMMA RootClears == Root \in 0 .. 5 /\ (Root > 1 => Found /\ Clear(Root - 1))
  <1> DEFINE failures == {i \in DOMAIN Steps : Steps[i] = "FAIL"}
  <1>1. DOMAIN Steps \subseteq 1 .. 5 /\ (~Found => DOMAIN Steps \subseteq {1})
    <2>1. CASE Found  BY <2>1, StepsWhenFound
    <2>2. CASE ~Found  BY <2>2 DEF Steps
    <2> QED BY <2>1, <2>2
  <1>2. CASE failures = {}
    <2>1. Root = 0  BY <1>2 DEF Root
    <2> QED BY <2>1
  <1>3. CASE failures # {}
    <2>1. Root = First(failures)  BY <1>3 DEF Root
    <2>2. failures \in SUBSET Nat  BY <1>1
    <2>3. Root \in failures /\ \A j \in failures : Root <= j
      <3> HIDE DEF failures
      <3> QED BY <1>3, <2>1, <2>2, FirstIn
    <2>4. Root \in 1 .. 5 /\ (Root > 1 => Found)  BY <1>1, <2>3
    <2>5. ASSUME Root > 1, NEW j \in 1 .. Root - 1 PROVE Steps[j] # "FAIL"
      <3>1. DOMAIN Steps = 1 .. 5  BY <2>4, <2>5, StepsWhenFound
      <3>2. j \in DOMAIN Steps /\ ~(Root <= j)  BY <2>4, <2>5, <3>1
      <3> QED BY <2>3, <3>2
    <2> QED BY <2>4, <2>5 DEF Clear
  <1> QED BY <1>2, <1>3

\* The root cause is a check that failed.
LEMMA RootFails == Found /\ Root # 0 => Root \in 1 .. 5 /\ Steps[Root] = "FAIL"
  <1> SUFFICES ASSUME Found, Root # 0 PROVE Root \in 1 .. 5 /\ Steps[Root] = "FAIL"  OBVIOUS
  <1> DEFINE failures == {i \in DOMAIN Steps : Steps[i] = "FAIL"}
  <1>1. failures # {} /\ Root = First(failures)  BY DEF Root
  <1>2. failures \in SUBSET Nat  BY StepsWhenFound
  <1>3. Root \in failures
    <2> HIDE DEF failures
    <2> QED BY <1>1, <1>2, FirstIn
  <1> QED BY <1>3, StepsWhenFound

\* If the first k have not failed, no one of them is the root cause.
RootFollows == \A k \in 0 .. 5 : Found /\ Clear(k) => Root = 0 \/ Root > k

LEMMA ClearRoot == RootFollows
  <1> SUFFICES ASSUME NEW k \in 0 .. 5, Found, Clear(k), Root # 0 PROVE Root > k
    BY RootClears DEF RootFollows
  <1> QED BY RootFails DEF Clear

\* The same of the state a step leads to.
LEMMA ClearAfter ==
  ASSUME NEW k \in 0 .. 5, Found', \A j \in 1 .. k : FiveSteps'[j] # "FAIL"
  PROVE  Root' = 0 \/ Root' > k
  <1>1. RootFollows'  BY ClearRoot, PTL
  <1>2. (Found => Steps = FiveSteps /\ DOMAIN Steps = 1 .. 5)'  BY StepsWhenFound, PTL
  <1>3. Steps' = FiveSteps'  BY <1>2
  <1>4. Clear(k)'  BY <1>3 DEF Clear
  <1> QED BY <1>1, <1>4 DEF RootFollows

Up == {i \in Replicas : Running(Sources[i])}

\* Where every container stays in its state or comes to run, the first check
\* passes again, about the same container or one that did not run before.
LEMMA RunningAgain ==
  ASSUME TypeOK, TypeOK', Found, Running(Chosen), Running(Target),
         \A c \in Containers : box'[c].state \in {box[c].state, "running"}
  PROVE  /\ Found' /\ StepContainers' = "PASS" /\ Running(Target)' /\ Running(Chosen)'
         /\ \E i \in DOMAIN Sources : Chosen' = Sources[i] /\ Exists(Sources[i])'
         /\ Chosen' = Chosen \/ box[Chosen'].state # "running"
  <1>1. DOMAIN Sources \in SUBSET Nat /\ Target \in Containers /\ \A i \in DOMAIN Sources : Sources[i] \in Containers
    BY SourcesAreContainers, ConnectivityAssumption
  <1>2. \A c \in Containers : (Running(c) => Running(c)') /\ (Exists(c) => Exists(c)')
    BY DEF Running, Exists
  <1>3. Up \in SUBSET Nat /\ Up \subseteq Up' /\ Up' \in SUBSET Nat /\ Replicas \subseteq Replicas' /\ Replicas' \in SUBSET Nat
    BY <1>1, <1>2 DEF Up, Replicas
  <1>4. Up # {}
    <2>1. PICK i \in Replicas : Chosen = Sources[i]  BY ChosenIsReplica DEF Found
    <2> QED BY <2>1 DEF Up
  <1>5. Chosen = Sources[First(Up)] /\ First(Up) \in Up /\ \A j \in Up : First(Up) <= j
    BY <1>3, <1>4, FirstIn DEF Chosen, Up
  <1>6. PICK f \in Up' : Chosen' = Sources[f] /\ \A j \in Up' : f <= j
    <2>1. Up' # {}  BY <1>3, <1>4
    <2>2. Chosen' = Sources[First(Up')]  BY <2>1 DEF Chosen, Up
    <2>3. First(Up') \in Up' /\ \A j \in Up' : First(Up') <= j  BY <1>3, <2>1, FirstIn
    <2> QED BY <2>2, <2>3
  <1>7. f \in DOMAIN Sources /\ Exists(Sources[f])' /\ Running(Sources[f])'
    BY <1>6 DEF Up, Replicas
  <1>8. Chosen' = Chosen \/ box[Chosen'].state # "running"
    <2>1. CASE f \in Up
      <3>1. f = First(Up)
        <4>1. First(Up) <= f /\ f <= First(Up)  BY <1>3, <1>5, <1>6, <2>1
        <4>2. f \in Nat /\ First(Up) \in Nat  BY <1>3, <1>5, <1>6
        <4> QED BY <4>1, <4>2
      <3> QED BY <1>5, <1>6, <3>1
    <2>2. CASE f \notin Up
      <3>1. ~(Exists(Sources[f]) /\ Running(Sources[f]))  BY <1>7, <2>2 DEF Up, Replicas
      <3>2. Exists(Sources[f]) \/ ~Running(Sources[f])  BY DEF Exists, Running
      <3> QED BY <1>6, <3>1, <3>2 DEF Running
    <2> QED BY <2>1, <2>2
  <1>9. Found' /\ Running(Target)' /\ Running(Chosen)'
    <2>1. Replicas' # {}  BY <1>3, <1>4 DEF Up
    <2>2. Exists(Target)' /\ Running(Target)'  BY <1>1, <1>2 DEF Found
    <2>3. Running(Chosen)'  BY <1>6, <1>7 DEF Running
    <2> QED BY <2>1, <2>2, <2>3 DEF Found
  <1>10. StepContainers' = "PASS"  BY <1>9 DEF StepContainers
  <1> QED BY <1>6, <1>7, <1>8, <1>9, <1>10

\* The second check does not fail again where the target publishes what it did.
LEMMA PortAgain ==
  ASSUME TypeOK, StepPort # "FAIL", Running(Target), Running(Target)', port' = port,
         box[Target].published # "no" => box'[Target].published # "no"
  PROVE  StepPort' # "FAIL"
  BY DEF StepPort

\* A container that is as compose declares it shares nobody's network.
LEMMA AsDeclared ==
  ASSUME TypeOK, Composed, NEW c \in Containers
  PROVE  /\ box[c].mode \notin Containers
         /\ Exists(c) => /\ box[c] = Inspected(box[c].state, declared[c])
                         /\ box[c].mode \in {"own", "none", "host"} /\ Effective(c) = Attached(c)
  <1>1. box[c].mode \notin Containers  BY DEF Composed
  <1>2. ASSUME Exists(c)
        PROVE  /\ box[c] = Inspected(box[c].state, declared[c])
               /\ box[c].mode \in {"own", "none", "host"} /\ Effective(c) = Attached(c)
    <2>1. box[c] = Inspected(box[c].state, declared[c])  BY <1>2 DEF Composed
    <2>2. declared[c].mode \in Modes  BY BoxParts DEF Declarations, Settings
    <2>3. box[c].mode = declared[c].mode  BY <2>1 DEF Inspected
    <2>4. box[c].mode \in {"own", "none", "host"}  BY <1>1, <2>2, <2>3 DEF Modes
    <2>5. Effective(c) = Attached(c)  BY <1>1, <2>4 DEF Effective
    <2> QED BY <2>1, <2>4, <2>5
  <1> QED BY <1>1, <1>2

\* Creating containers leaves the others alone where nobody shares a network.
LEMMA CreatedAlone ==
  ASSUME Composed, NEW d, NEW cs \in SUBSET Containers, NEW c \in Containers
  PROVE  Created(box, d, cs)[c] = IF c \in cs THEN Inspected("running", d[c]) ELSE box[c]
  BY DEF Created, Composed

LEMMA ConnectedSame ==
  ASSUME TypeOK, NEW cs, NEW n \in Networks, NEW c \in Containers
  PROVE  LET b == Connected(box, cs, n)
         IN /\ b[c].state = box[c].state /\ b[c].mode = box[c].mode /\ b[c].published = box[c].published
            /\ box[c].joined \subseteq b[c].joined
            /\ c \in cs /\ Exists(c) /\ box[c].mode = "own" => n \in b[c].joined
  <1>1. box[c] \in Inspections  BY BoxParts DEF Boxes
  <1>2. CASE c \in cs /\ box[c].state # "missing" /\ box[c].mode = "own"
    <2>1. Connected(box, cs, n)[c] = [box[c] EXCEPT !.joined = @ \cup {n}]  BY <1>2 DEF Connected
    <2> QED BY <1>1, <2>1 DEF Inspections
  <1>3. CASE ~(c \in cs /\ box[c].state # "missing" /\ box[c].mode = "own")
    <2>1. Connected(box, cs, n)[c] = box[c]  BY <1>3 DEF Connected
    <2> QED BY <1>3, <2>1 DEF Exists
  <1> QED BY <1>2, <1>3

\* An edit that adds a network takes none away and publishes what was published.
LEMMA DeclaringSame ==
  ASSUME TypeOK, NEW cs, NEW n \in Networks, NEW c \in Containers
  PROVE  LET d == Declaring(cs, n)
         IN /\ d[c].published = declared[c].published
            /\ c \in cs => d[c].mode = "own" /\ n \in d[c].joined
            /\ c \notin cs => d[c] = declared[c]
  <1>1. declared[c] \in Settings  BY BoxParts DEF Declarations
  <1>2. CASE c \in cs
    <2>1. Declaring(cs, n)[c] = [declared[c] EXCEPT !.mode = "own", !.joined = @ \cup {n}]  BY <1>2 DEF Declaring
    <2> QED BY <1>1, <1>2, <2>1 DEF Settings
  <1>3. CASE c \notin cs  BY <1>3 DEF Declaring
  <1> QED BY <1>2, <1>3

\* What every fix for the network does: containers are connected as they are,
\* or created anew, on the networks they had and the one advised.
Extends ==
  /\ \A c \in Containers : box'[c].state \in {box[c].state, "running"}
  /\ box[Target].published # "no" => box'[Target].published # "no"

LEMMA ConnectExtends ==
  ASSUME TypeOK, NEW cs, NEW n \in Networks, box' = Connected(box, cs, n) PROVE Extends
  BY ConnectedSame, ConnectivityAssumption DEF Extends

LEMMA CreateExtends ==
  ASSUME TypeOK, Composed, Exists(Target), NEW d, NEW cs \in SUBSET Containers, box' = Created(box, d, cs),
         declared[Target].published # "no" => d[Target].published # "no"
  PROVE  Extends
  <1>1. \A c \in Containers : box'[c] = IF c \in cs THEN Inspected("running", d[c]) ELSE box[c]  BY CreatedAlone
  <1>2. ASSUME NEW c \in Containers PROVE box'[c].state \in {box[c].state, "running"}
    <2>1. box'[c] = Inspected("running", d[c]) \/ box'[c] = box[c]  BY <1>1
    <2>2. Inspected("running", d[c]).state = "running"  BY DEF Inspected
    <2> QED BY <2>1, <2>2
  <1>3. Target \in Containers /\ box[Target].published = declared[Target].published
    <2>1. Target \in Containers  BY ConnectivityAssumption
    <2>2. box[Target] = Inspected(box[Target].state, declared[Target])  BY <2>1, AsDeclared
    <2> QED BY <2>1, <2>2 DEF Inspected
  <1>4. box'[Target] = Inspected("running", d[Target]) \/ box'[Target] = box[Target]  BY <1>1, <1>3
  <1>5. ASSUME box[Target].published # "no" PROVE box'[Target].published # "no"
    <2>1. CASE box'[Target] = box[Target]  BY <1>5, <2>1
    <2>2. CASE box'[Target] = Inspected("running", d[Target])
      <3>1. box'[Target].published = d[Target].published  BY <2>2 DEF Inspected
      <3> QED BY <1>3, <1>5, <3>1
    <2> QED BY <1>4, <2>1, <2>2
  <1> QED BY <1>2, <1>5 DEF Extends

\* Of a network the root cause, the fix leaves the first two checks passed.
LEMMA TwoStay ==
  ASSUME TypeOK, TypeOK', Found, Clear(2), Extends, port' = port
  PROVE  /\ Found' /\ StepContainers' # "FAIL" /\ StepPort' # "FAIL"
         /\ \E i \in DOMAIN Sources : Chosen' = Sources[i] /\ Exists(Sources[i])'
         /\ Running(Chosen)' /\ Running(Target)'
         /\ Chosen' = Chosen \/ box[Chosen'].state # "running"
         /\ Running(Chosen) /\ Running(Target)
  <1>1. StepContainers # "FAIL" /\ StepPort # "FAIL"  BY StepsWhenFound DEF Clear, FiveSteps
  <1>2. Running(Chosen) /\ Running(Target)  BY <1>1 DEF StepContainers
  <1>3. /\ Found' /\ StepContainers' = "PASS" /\ Running(Target)' /\ Running(Chosen)'
        /\ \E i \in DOMAIN Sources : Chosen' = Sources[i] /\ Exists(Sources[i])'
        /\ Chosen' = Chosen \/ box[Chosen'].state # "running"
    BY <1>2, RunningAgain DEF Extends
  <1>4. StepPort' # "FAIL"  BY <1>1, <1>2, <1>3, PortAgain DEF Extends
  <1> QED BY <1>2, <1>3, <1>4

\* The fixes of the third check.
LEMMA NetworkFixed ==
  ASSUME TypeOK, TypeOK', Composed, Root = 3,
         \/ FollowNone(Chosen, Target) \/ FollowNone(Target, Chosen)
         \/ FollowHost(Chosen) \/ FollowIsolated(Chosen)
  PROVE  Root' = 0 \/ Root' >= 3
  <1>1. Found /\ Clear(2) /\ Root' \in 0 .. 5
    <2>1. Found /\ Clear(2)  BY RootClears
    <2>2. (Root \in 0 .. 5 /\ (Root > 1 => Found /\ Clear(Root - 1)))'  BY RootClears, PTL
    <2> QED BY <2>1, <2>2
  <1>2. /\ Chosen \in Containers /\ Target \in Containers /\ Exists(Target)
        /\ \A c \in Containers : Service[c] \in SUBSET Containers
    BY <1>1, ChosenIsContainer, ConnectivityAssumption, HostAssumption DEF Found
  <1>3. ASSUME NEW cs \in SUBSET Containers, NEW n \in Networks, Persist(cs, n) PROVE Extends /\ port' = port
    <2>1. box' = Created(box, Declaring(cs, n), cs) /\ port' = port  BY <1>3 DEF Persist
    <2>2. Declaring(cs, n)[Target].published = declared[Target].published  BY <1>2, DeclaringSame
    <2> QED BY <1>2, <2>1, <2>2, CreateExtends
  <1>4. ASSUME NEW c \in Containers, NEW other, FollowNone(c, other) PROVE Extends /\ port' = port
    <2>1. PICK n \in Custom \cup {AppNet} : Persist(Service[c], n)  BY <1>4 DEF FollowNone
    <2>2. n \in Networks  BY HostAssumption DEF Networks
    <2> QED BY <1>2, <1>3, <2>1, <2>2
  <1>5. ASSUME FollowHost(Chosen) PROVE Extends /\ port' = port
    <2>1. CASE \E n \in Advised(Chosen) : Persist(Service[Chosen] \cup Service[Target], n)
      BY <1>2, <1>3, <2>1, AdvisedExist
    <2>2. CASE /\ declared' = Publishing(Target)
               /\ box' = Created(box, declared', Service[Target]) /\ port' = port
      <3>1. declared'[Target].published # "no"
        BY <1>2, <2>2, BoxParts DEF Declarations, Settings, Publishing
      <3> QED BY <1>2, <2>2, <3>1, CreateExtends
    <2> QED BY <1>5, <2>1, <2>2 DEF FollowHost
  <1>6. ASSUME FollowIsolated(Chosen) PROVE Extends /\ port' = port
    <2>1. PICK n \in Networks :
            \/ \E cs \in SUBSET Containers : ForNow(cs, n)
            \/ Persist(Service[Chosen] \cup Service[Target], n)
      BY <1>2, <1>6, AdvisedExist DEF FollowIsolated
    <2>2. CASE \E cs \in SUBSET Containers : ForNow(cs, n)
      BY <2>2, ConnectExtends DEF ForNow
    <2> QED BY <1>2, <1>3, <2>1, <2>2
  <1>7. Extends /\ port' = port  BY <1>2, <1>4, <1>5, <1>6
  <1>8. Found' /\ StepContainers' # "FAIL" /\ StepPort' # "FAIL"  BY <1>1, <1>7, TwoStay
  <1>9. \A j \in 1 .. 2 : FiveSteps'[j] # "FAIL"  BY <1>8 DEF FiveSteps
  <1> QED BY <1>1, <1>8, <1>9, ClearAfter

\* Two containers with a network in common are not isolated.
LEMMA MeetingPasses ==
  ASSUME box'[Chosen'].mode = "own", box'[Target].mode = "own", NEW n,
         n \in box'[Chosen'].joined, n \in box'[Target].joined
  PROVE  StepNetwork(Chosen, Target)' # "FAIL"
  <1>1. "own" \notin Containers  BY HostAssumption
  <1>2. n \in Shared(Chosen, Target)'  BY <1>1 DEF Shared, Effective, Attached
  <1> QED BY <1>2 DEF StepNetwork

\* The fix of the fourth check leaves the first three passed.
LEMMA IccFixed ==
  ASSUME TypeOK, TypeOK', Composed, Root = 4, FollowIcc(Chosen) PROVE Root' = 0 \/ Root' >= 4
  <1>1. Found /\ Clear(3) /\ Clear(2) /\ StepIcc(Chosen, Target) = "FAIL"
    <2>1. Found /\ Clear(3)  BY RootClears
    <2>2. Steps[4] = "FAIL"  BY <2>1, RootFails
    <2> QED BY <2>1, <2>2, StepsWhenFound DEF Clear, FiveSteps
  <1>2. /\ Chosen \in Containers /\ Target \in Containers /\ Exists(Chosen) /\ Exists(Target)
        /\ \A c \in Containers : Service[c] \in SUBSET Containers /\ c \in Service[c]
    <2>1. Exists(Chosen)  BY <1>1, ChosenIsReplica DEF Found, Replicas
    <2> QED BY <1>1, <2>1, ChosenIsContainer, ConnectivityAssumption, HostAssumption DEF Found
  <1>3. box[Chosen].mode = "own" /\ box[Target].mode = "own"
    <2>1. {box[Chosen].mode, box[Target].mode} \cap {"none", "host"} = {}  BY <1>1 DEF StepIcc
    <2> QED BY <1>2, <2>1, AsDeclared
  <1> DEFINE Met == /\ Found' /\ StepContainers' # "FAIL" /\ StepPort' # "FAIL"
                    /\ StepNetwork(Chosen, Target)' # "FAIL"
  <1>4. ASSUME ForNow({Chosen, Target}, AppNet) PROVE Met
    <2>1. box' = Connected(box, {Chosen, Target}, AppNet) /\ port' = port  BY <1>4 DEF ForNow
    <2>2. Extends  BY <2>1, AdvisedExist, ConnectExtends
    <2>3. \A c \in Containers : box'[c].state = box[c].state /\ box'[c].mode = box[c].mode
      BY <2>1, AdvisedExist, ConnectedSame
    <2>4. AppNet \in box'[Chosen].joined /\ AppNet \in box'[Target].joined
      BY <1>2, <1>3, <2>1, AdvisedExist, ConnectedSame
    <2>5. /\ Found' /\ StepContainers' # "FAIL" /\ StepPort' # "FAIL" /\ Running(Chosen)'
          /\ \E i \in DOMAIN Sources : Chosen' = Sources[i]
          /\ Chosen' = Chosen \/ box[Chosen'].state # "running"
      BY <1>1, <2>1, <2>2, TwoStay
    <2>6. Chosen' = Chosen
      <3>1. Chosen' \in Containers /\ box'[Chosen'].state = "running"  BY <2>5, SourcesAreContainers DEF Running
      <3> QED BY <2>3, <2>5, <3>1
    <2>7. box'[Chosen'].mode = "own" /\ box'[Target].mode = "own"  BY <1>2, <1>3, <2>3, <2>6
    <2>8. StepNetwork(Chosen, Target)' # "FAIL"  BY <2>4, <2>6, <2>7, MeetingPasses
    <2> QED BY <2>5, <2>8
  <1>5. ASSUME NEW cs \in SUBSET Containers, Chosen \in cs, Target \in cs, Persist(cs, AppNet) PROVE Met
    <2> DEFINE d == Declaring(cs, AppNet)
    <2>1. box' = Created(box, d, cs) /\ port' = port  BY <1>5 DEF Persist
    <2>2. \A c \in cs : d[c].mode = "own" /\ AppNet \in d[c].joined  BY AdvisedExist, DeclaringSame
    <2>3. d[Target].published = declared[Target].published  BY <1>2, AdvisedExist, DeclaringSame
    <2> HIDE DEF d
    <2>4. Extends  BY <1>2, <2>1, <2>3, CreateExtends
    <2>5. \A c \in Containers : box'[c] = IF c \in cs THEN Inspected("running", d[c]) ELSE box[c]
      BY <2>1, CreatedAlone
    <2>6. ASSUME NEW c \in cs PROVE box'[c].mode = "own" /\ AppNet \in box'[c].joined
      <3>1. box'[c] = Inspected("running", d[c])  BY <2>5
      <3> QED BY <2>2, <3>1 DEF Inspected
    <2>7. /\ Found' /\ StepContainers' # "FAIL" /\ StepPort' # "FAIL" /\ Running(Chosen)'
          /\ \E i \in DOMAIN Sources : Chosen' = Sources[i]
          /\ Chosen' = Chosen \/ box[Chosen'].state # "running"
      BY <1>1, <2>1, <2>4, TwoStay
    <2>8. Chosen' \in cs
      <3>1. Chosen' \in Containers /\ box'[Chosen'].state = "running"  BY <2>7, SourcesAreContainers DEF Running
      <3> QED BY <1>5, <2>5, <2>7, <3>1
    <2>9. StepNetwork(Chosen, Target)' # "FAIL"  BY <1>5, <2>6, <2>8, MeetingPasses
    <2> QED BY <2>7, <2>9
  <1>6. Met  BY <1>2, <1>4, <1>5 DEF FollowIcc
  <1>7. \A j \in 1 .. 3 : FiveSteps'[j] # "FAIL"  BY <1>6 DEF FiveSteps
  <1>8. Root' = 0 \/ Root' > 3  BY <1>6, <1>7, ClearAfter
  <1>9. (Root \in 0 .. 5 /\ (Root > 1 => Found /\ Clear(Root - 1)))'  BY RootClears, PTL
  <1> QED BY <1>8, <1>9

\* The containers of a service are created from one declaration: what is
\* declared for one of A is declared for all of its service.
Alike ==
  \A i, j \in DOMAIN Sources :
    Sources[j] \in Service[Sources[i]] => declared[Sources[j]] = declared[Sources[i]]

LEMMA InitAlike == Init => Alike
  <1> SUFFICES ASSUME Init, NEW i \in DOMAIN Sources, NEW j \in DOMAIN Sources, Sources[j] \in Service[Sources[i]]
               PROVE  declared[Sources[j]] = declared[Sources[i]]
    BY DEF Alike
  <1>1. declared \in Setups /\ Sources[i] \in Containers  BY SourcesAreContainers DEF Init, HostInit
  <1> QED BY <1>1, ConnectivityAssumption

LEMMA PersistAlike ==
  ASSUME TypeOK, Alike, NEW c \in Containers, NEW t \in {c, Target}, NEW n \in Networks,
         Persist(Service[c] \cup Service[t], n)
  PROVE  Alike'
  <1> SUFFICES ASSUME NEW i \in DOMAIN Sources, NEW j \in DOMAIN Sources, Sources[j] \in Service[Sources[i]]
               PROVE  declared'[Sources[j]] = declared'[Sources[i]]
    BY DEF Alike
  <1> DEFINE a == Sources[i]  b == Sources[j]  cs == Service[c] \cup Service[t]
  <1>1. a \in Containers /\ b \in Containers /\ t \in Containers /\ declared[b] = declared[a]
    BY SourcesAreContainers, ConnectivityAssumption DEF Alike
  <1>2. a \in cs <=> b \in cs
    <2>1. \A d \in Containers : d \in Service[d] /\ \A e \in Service[d] : e \in Containers /\ Service[e] = Service[d]
      BY HostAssumption
    <2>2. Service[a] = Service[b]  BY <1>1, <2>1
    <2>3. \A d \in {c, t} : a \in Service[d] <=> b \in Service[d]  BY <1>1, <2>1, <2>2
    <2> QED BY <2>3
  <1>3. declared' = Declaring(cs, n)  BY DEF Persist
  <1> HIDE DEF a, b, cs
  <1>4. declared'[b] = declared'[a]  BY <1>1, <1>2, <1>3 DEF Declaring
  <1> QED BY <1>4 DEF a, b

LEMMA NextAlike == ASSUME TypeOK, Alike, [Next]_vars PROVE Alike'
  <1>0. Target \in Containers  BY ConnectivityAssumption
  <1>1. ASSUME declared' = declared PROVE Alike'  BY <1>1 DEF Alike
  <1>2. CASE HostNext
    BY <1>1, <1>2 DEF HostNext, Change, Stop, Remove, ForceRecreate, RunByHand, Disconnect, EditDaemon, RestartDockerd
  <1>3. CASE FollowRule  BY <1>1, <1>3 DEF FollowRule
  <1>4. CASE FollowUp  BY <1>1, <1>4 DEF FollowUp
  <1>5. ASSUME NEW c \in Containers, NEW t \in {c, Target}, NEW n \in Networks,
               Persist(Service[c] \cup Service[t], n)
        PROVE  Alike'
    BY <1>5, PersistAlike
  <1>6. ASSUME NEW c \in Containers, NEW other, FollowNone(c, other) PROVE Alike'
    <2>1. PICK n \in Custom \cup {AppNet} : Persist(Service[c], n)  BY <1>6 DEF FollowNone
    <2>2. n \in Networks /\ Service[c] = Service[c] \cup Service[c]  BY HostAssumption DEF Networks
    <2>3. Persist(Service[c] \cup Service[c], n)  BY <2>1, <2>2
    <2> QED BY <1>5, <2>2, <2>3
  <1>7. ASSUME Found, FollowHost(Chosen) PROVE Alike'
    <2>0. Chosen \in Containers  BY <1>7, ChosenIsContainer
    <2>1. CASE \E n \in Advised(Chosen) : Persist(Service[Chosen] \cup Service[Target], n)
      BY <1>5, <2>0, <2>1, AdvisedExist
    <2>2. CASE declared' = Publishing(Target)
      <3>1. \A i \in DOMAIN Sources : declared'[Sources[i]] = declared[Sources[i]]
        BY <2>2, SourcesAreContainers, BoxParts DEF Declarations, Publishing
      <3> QED BY <3>1 DEF Alike
    <2> QED BY <1>7, <2>1, <2>2 DEF FollowHost
  <1>8. ASSUME Found, FollowIsolated(Chosen) PROVE Alike'
    <2>0. Chosen \in Containers  BY <1>8, ChosenIsContainer
    <2>1. PICK n \in Networks :
            \/ \E cs : ForNow(cs, n)
            \/ Persist(Service[Chosen] \cup Service[Target], n)
      BY <1>8, <2>0, AdvisedExist DEF FollowIsolated
    <2> QED BY <1>1, <1>5, <2>0, <2>1 DEF ForNow
  <1>9. ASSUME Found, FollowIcc(Chosen) PROVE Alike'
    <2>0. Chosen \in Containers  BY <1>9, ChosenIsContainer
    <2> QED BY <1>1, <1>5, <1>9, <2>0, AdvisedExist DEF FollowIcc, ForNow
  <1>10. CASE Follow
    <2>1. Found => Chosen \in Containers  BY ChosenIsContainer
    <2> QED BY <1>0, <1>1, <1>4, <1>6, <1>7, <1>8, <1>9, <1>10, <2>1
        DEF Follow, FollowStart, FollowPort, FollowAddress
  <1>11. CASE UNCHANGED vars  BY <1>1, <1>11 DEF vars, host
  <1> QED BY <1>2, <1>3, <1>10, <1>11 DEF Next

\* Containers created again as they were are joined as they were.
LEMMA SamePair ==
  ASSUME NEW s \in Containers, NEW t \in Containers,
         s = Chosen', box'[s].mode = box[Chosen].mode, box'[s].joined = box[Chosen].joined,
         box'[t].mode = box[t].mode, box'[t].joined = box[t].joined, box'[t].published = box[t].published,
         box[Chosen].mode \in {"own", "none", "host"}, box[t].mode \in {"own", "none", "host"},
         t = Target, net' = net, iccOff' = iccOff
  PROVE  /\ StepNetwork(Chosen, Target)' = StepNetwork(Chosen, Target)
         /\ StepIcc(Chosen, Target)' = StepIcc(Chosen, Target)
  <1>1. {"own", "none", "host", "gone"} \cap Containers = {}  BY HostAssumption
  <1>2. /\ Effective(Chosen) = Attached(Chosen) /\ Effective(Target) = Attached(Target)
        /\ Effective(Chosen)' = Attached(Chosen)' /\ Effective(Target)' = Attached(Target)'
    BY <1>1 DEF Effective
  <1>3. Shared(Chosen, Target)' = Shared(Chosen, Target)  BY <1>2 DEF Shared, Attached
  <1>4. \A n : Talks(n)' = Talks(n)  BY DEF Talks
  <1>5. StepNetwork(Chosen, Target)' = StepNetwork(Chosen, Target)  BY <1>3 DEF StepNetwork
  <1>6. StepIcc(Chosen, Target)' = StepIcc(Chosen, Target)  BY <1>3, <1>4 DEF StepIcc
  <1> QED BY <1>5, <1>6

\* The fix of the fifth check creates the containers of a service anew; one
\* that did not run may now be the one diagnosed.
LEMMA AddressFixed ==
  ASSUME TypeOK, TypeOK', Composed, Alike, Root = 5, FollowAddress(Chosen), UNCHANGED iccOff
  PROVE  Root' = 0 \/ Root' >= 5
  <1>1. Found /\ Clear(4) /\ Clear(2) /\ StepNetwork(Chosen, Target) # "FAIL" /\ StepIcc(Chosen, Target) # "FAIL"
    <2>1. Found /\ Clear(4)  BY RootClears
    <2> QED BY <2>1, StepsWhenFound DEF Clear, FiveSteps
  <1>2. /\ Chosen \in Containers /\ Target \in Containers /\ Exists(Chosen) /\ Exists(Target)
        /\ Chosen \in Service[Chosen] /\ Service[Chosen] \in SUBSET Containers
        /\ \E i \in DOMAIN Sources : Chosen = Sources[i]
    <2>1. Exists(Chosen) /\ \E i \in DOMAIN Sources : Chosen = Sources[i]
      BY <1>1, ChosenIsReplica DEF Found, Replicas
    <2> QED BY <1>1, <2>1, ChosenIsContainer, ConnectivityAssumption, HostAssumption DEF Found
  <1>3. box' = Created(box, declared, Service[Chosen]) /\ UNCHANGED <<declared, net, port, iccOff>>
    BY DEF FollowAddress
  <1>4. Extends  BY <1>2, <1>3, CreateExtends
  <1>5. /\ Found' /\ StepContainers' # "FAIL" /\ StepPort' # "FAIL" /\ Running(Chosen)'
        /\ \E i \in DOMAIN Sources : Chosen' = Sources[i]
        /\ Chosen' = Chosen \/ box[Chosen'].state # "running"
        /\ Running(Chosen) /\ Running(Target)
    BY <1>1, <1>3, <1>4, TwoStay
  <1>6. PICK s \in Containers : s = Chosen'  BY <1>5, SourcesAreContainers
  <1>7. \A c \in Containers : box'[c] = IF c \in Service[Chosen] THEN Inspected("running", declared[c]) ELSE box[c]
    BY <1>2, <1>3, CreatedAlone
  <1>8. s \in Service[Chosen]
    <2>1. box'[s].state = "running"  BY <1>5, <1>6 DEF Running
    <2> QED BY <1>2, <1>5, <1>6, <1>7, <2>1
  <1>9. box'[s] = box[Chosen]
    <2>1. declared[s] = declared[Chosen]  BY <1>2, <1>5, <1>6, <1>8 DEF Alike
    <2>2. box[Chosen] = Inspected("running", declared[Chosen])  BY <1>2, <1>5, AsDeclared DEF Running
    <2> QED BY <1>6, <1>7, <1>8, <2>1, <2>2
  <1>10. box'[Target] = box[Target]
    <2>1. box[Target] = Inspected("running", declared[Target])  BY <1>2, <1>5, AsDeclared DEF Running
    <2> QED BY <1>2, <1>7, <2>1
  <1>11. box[Chosen].mode \in {"own", "none", "host"} /\ box[Target].mode \in {"own", "none", "host"}
    BY <1>2, AsDeclared
  <1>12. StepNetwork(Chosen, Target)' # "FAIL" /\ StepIcc(Chosen, Target)' # "FAIL"
    BY <1>1, <1>2, <1>3, <1>6, <1>9, <1>10, <1>11, SamePair
  <1>13. \A j \in 1 .. 4 : FiveSteps'[j] # "FAIL"  BY <1>5, <1>12 DEF FiveSteps
  <1>14. Root' = 0 \/ Root' > 4  BY <1>5, <1>13, ClearAfter
  <1>15. (Root \in 0 .. 5 /\ (Root > 1 => Found /\ Clear(Root - 1)))'  BY RootClears, PTL
  <1> QED BY <1>14, <1>15

\* The command of NET-001 fails none of the first four checks that did not fail.
LEMMA RuleFixed ==
  ASSUME TypeOK, TypeOK', Composed, Root > 1, FollowRule PROVE Root' = 0 \/ Root' >= Root
  <1>1. Root \in 2 .. 5 /\ Found /\ Clear(Root - 1)  BY RootClears
  <1>2. StepContainers # "FAIL" /\ \A j \in 1 .. Root - 1 : FiveSteps[j] # "FAIL"
    BY <1>1, StepsWhenFound DEF Clear, FiveSteps
  <1>3. /\ Chosen \in Containers /\ Target \in Containers /\ Running(Chosen) /\ Running(Target)
        /\ Exists(Chosen) /\ Exists(Target)
    BY <1>1, <1>2, ChosenIsContainer, ConnectivityAssumption DEF StepContainers, Running, Exists
  <1>4. PICK n \in Networks : box' = Connected(box, {Sources[First(Replicas)]}, n)
    BY <1>3 DEF FollowRule
  <1>5. UNCHANGED <<net, iccOff, port>>  BY DEF FollowRule
  <1>6. \A c \in Containers : /\ box'[c].state = box[c].state /\ box'[c].mode = box[c].mode
                              /\ box'[c].published = box[c].published /\ box[c].joined \subseteq box'[c].joined
    BY <1>4, ConnectedSame
  <1>7. Found' /\ StepContainers' = "PASS" /\ Running(Target)' /\ Chosen' = Chosen
    <2>1. /\ Found' /\ StepContainers' = "PASS" /\ Running(Target)' /\ Running(Chosen)'
          /\ \E i \in DOMAIN Sources : Chosen' = Sources[i]
          /\ Chosen' = Chosen \/ box[Chosen'].state # "running"
      BY <1>1, <1>3, <1>6, RunningAgain
    <2>2. Chosen' \in Containers /\ box'[Chosen'].state = "running"  BY <2>1, SourcesAreContainers DEF Running
    <2> QED BY <1>6, <2>1, <2>2
  <1>8. StepPort # "FAIL" => StepPort' # "FAIL"
    BY <1>3, <1>5, <1>6, <1>7, PortAgain
  <1>9. /\ box[Chosen].mode \in {"own", "none", "host"} /\ box[Target].mode \in {"own", "none", "host"}
        /\ box'[Chosen'].mode = box[Chosen].mode /\ box'[Target].mode = box[Target].mode
        /\ box'[Target].published = box[Target].published
    BY <1>3, <1>6, <1>7, AsDeclared
  <1>10. Shared(Chosen, Target) \subseteq Shared(Chosen, Target)'
    <2>1. {"own", "none", "host", "gone"} \cap Containers = {}  BY HostAssumption
    <2>2. /\ Effective(Chosen) = Attached(Chosen) /\ Effective(Target) = Attached(Target)
          /\ Effective(Chosen)' = Attached(Chosen)' /\ Effective(Target)' = Attached(Target)'
      BY <1>9, <2>1 DEF Effective
    <2> QED BY <1>3, <1>6, <1>7, <2>2 DEF Shared, Attached
  <1>11. StepNetwork(Chosen, Target) # "FAIL" => StepNetwork(Chosen, Target)' # "FAIL"
    BY <1>9, <1>10 DEF StepNetwork
  <1>12. StepNetwork(Chosen, Target) # "FAIL" /\ StepIcc(Chosen, Target) # "FAIL" => StepIcc(Chosen, Target)' # "FAIL"
    <2>1. \A m : Talks(m)' = Talks(m)  BY <1>5 DEF Talks
    <2> QED BY <1>9, <1>10, <2>1 DEF StepNetwork, StepIcc
  <1>13. ASSUME NEW j \in 1 .. Root - 1 PROVE FiveSteps'[j] # "FAIL"
    <2>1. j \in 1 .. 4 /\ \A i \in 1 .. j : FiveSteps[i] # "FAIL"  BY <1>1, <1>2
    <2>2. CASE j = 1  BY <1>7, <2>2 DEF FiveSteps
    <2>3. CASE j = 2  BY <1>8, <2>1, <2>3 DEF FiveSteps
    <2>4. CASE j = 3  BY <1>11, <2>1, <2>4 DEF FiveSteps
    <2>5. CASE j = 4  BY <1>12, <2>1, <2>5 DEF FiveSteps
    <2> QED BY <2>1, <2>2, <2>3, <2>4, <2>5
  <1>14. Root - 1 \in 0 .. 5  BY <1>1
  <1>15. Root' = 0 \/ Root' > Root - 1
    <2>1. PICK k \in 0 .. 5 : k = Root - 1  BY <1>14
    <2> QED BY <1>7, <1>13, <2>1, ClearAfter
  <1>16. (Root \in 0 .. 5 /\ (Root > 1 => Found /\ Clear(Root - 1)))'  BY RootClears, PTL
  <1> QED BY <1>1, <1>15, <1>16

LEMMA NotBackNow ==
  ASSUME TypeOK, TypeOK', Alike, [Next]_vars, Composed, changes' = changes PROVE Root' = 0 \/ Root' >= Root
  <1>1. Root \in 0 .. 5 /\ (Root > 1 => Found)  BY RootClears
  <1>2. (Root \in 0 .. 5 /\ (Root > 1 => Found /\ Clear(Root - 1)))'  BY RootClears, PTL
  <1>3. CASE Root <= 1  BY <1>1, <1>2, <1>3
  <1>4. CASE UNCHANGED vars
    <2>1. Steps' = Steps
      BY <1>4 DEF vars, host, Steps, Found, Replicas, Exists, Chosen, Running, StepContainers, StepPort, StepNetwork,
         StepIcc, StepAddress, Shared, Effective, Attached, Talks, Odd
    <2>2. Root' = Root  BY <2>1 DEF Root
    <2> QED BY <1>1, <2>2
  <1>5. CASE Root > 1 /\ HostNext
    <2>1. changes' = changes + 1
      BY <1>5 DEF HostNext, Change, Stop, Remove, ForceRecreate, RunByHand, Disconnect, EditDaemon, RestartDockerd
    <2>2. changes \in Nat  BY BoxParts, HostAssumption
    <2> QED BY <2>1, <2>2
  <1>6. CASE Root > 1 /\ FollowRule  BY <1>6, RuleFixed
  <1>7. CASE Root = 2 /\ FollowPort
    <2>1. /\ StepContainers' = StepContainers /\ Found' = Found /\ Running(Target)' = Running(Target)
      BY <1>7 DEF FollowPort, StepContainers, Found, Replicas, Chosen, Exists, Running
    <2>2. StepContainers # "FAIL"  BY <1>1, <1>7, RootClears, StepsWhenFound DEF Clear, FiveSteps
    <2>3. StepPort' # "FAIL"  BY <1>7 DEF FollowPort, StepPort
    <2>4. \A j \in 1 .. 2 : FiveSteps'[j] # "FAIL"  BY <2>1, <2>2, <2>3 DEF FiveSteps
    <2>5. Found'  BY <1>1, <1>7, <2>1
    <2>6. Root' = 0 \/ Root' > 2  BY <2>4, <2>5, ClearAfter
    <2> QED BY <1>2, <1>7, <2>6
  <1>8. CASE Root > 1 /\ Follow
    <2>1. \/ Root = 2 /\ FollowPort
          \/ Root = 3 /\ (FollowNone(Chosen, Target) \/ FollowNone(Target, Chosen))
          \/ Root = 3 /\ (FollowHost(Chosen) \/ FollowIsolated(Chosen))
          \/ Root = 4 /\ FollowIcc(Chosen)
          \/ Root = 5 /\ FollowAddress(Chosen) /\ UNCHANGED iccOff
      BY <1>1, <1>8 DEF Follow, FollowUp
    <2> QED BY <1>1, <1>7, <2>1, NetworkFixed, IccFixed, AddressFixed
  <1> QED BY <1>1, <1>3, <1>4, <1>5, <1>6, <1>8 DEF Next

\* The steps are in causal order, for any containers, networks and settings:
\* where the containers are as compose declares them, neither the fix of a
\* cause nor the command of NET-001 brings an earlier cause back.
THEOREM NeverBackwardsHolds == Spec => NeverBackwards
  <1>1. TypeOK /\ Alike /\ [Next]_vars => Alike'  BY NextAlike
  <1>2. TypeOK /\ TypeOK' /\ Alike /\ [Next]_vars => [Composed /\ changes' = changes => Root' = 0 \/ Root' >= Root]_vars
    BY NotBackNow
  <1> QED BY TypeCorrect, InitAlike, <1>1, <1>2, PTL DEF Spec, NeverBackwards
=============================================================================
