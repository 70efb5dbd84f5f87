----------------------------- MODULE Dependencies -----------------------------
(***************************************************************************)
(* The dependencies that rule NET-001 verifies (src/dockguard/core/        *)
(* dependencies.py, core/collector.py, rules/network/dependency.py):       *)
(* those of dependencies.yaml and those that follow from the depends_on of *)
(* compose projects running here; which containers their names stand for;  *)
(* and the verdict on each, on a host where several projects come and go.  *)
(* What two containers make of one another is Connectivity's subject: here *)
(* they share a network that is open, or they do not.                      *)
(***************************************************************************)
EXTENDS Naturals, Sequences

CONSTANTS
  Projects,      \* the compose files that were loaded without error
  Name,          \* the project name of each, "" if its folder's name leaves none
  DependsOn,     \* its depends_on, as pairs of services
  Sharing,       \* its services in the network of another (service:, container:)
  Boxes,         \* containers, each that of a service of a compose file
  From, Service, ContainerName,  \* its file, its service, its own name
  Labels,        \* project names that `docker compose -p` may be given
  External,      \* networks that are not a project's own
  Declarations,  \* what dependencies.yaml may say
  MaxChanges     \* bound on the changes of the host

Unlabelled == ""
Items == [from : STRING, to : STRING, port : {"none", "ok", "bad"}]

ASSUME DependenciesAssumption ==
  /\ Name \in [Projects -> STRING] /\ Unlabelled \notin Labels
  /\ \A p \in Projects : Name[p] # "" => Name[p] \in Labels
  /\ DependsOn \in [Projects -> SUBSET (STRING \X STRING)] /\ Sharing \in [Projects -> SUBSET STRING]
  /\ \A p \in Projects : \A d \in DependsOn[p] : d[1] # "" /\ d[2] # ""
  /\ From \in [Boxes -> Projects] /\ Service \in [Boxes -> STRING] /\ ContainerName \in [Boxes -> STRING]
  /\ \A b, c \in Boxes : ContainerName[b] = ContainerName[c] => b = c
  /\ Labels \subseteq STRING /\ External \subseteq STRING /\ Labels \cap External = {}
  /\ \A f \in Declarations : f.state \in {"none", "broken", "ok"} /\ f.items \in Seq(Items)
  /\ MaxChanges \in Nat

VARIABLES
  file,     \* dependencies.yaml
  box,      \* the containers: their state, project label and networks
  changes

vars == <<file, box, changes>>
Missing == [state |-> "missing", project |-> Unlabelled, nets |-> {}]
Exists(b) == box[b].state # "missing"
Running(b) == box[b].state = "running"
-----------------------------------------------------------------------------
(* What is to be verified.                                                 *)

\* One bad item, and nothing of the file counts.
GoodItem(i) == i.from # "" /\ i.to # "" /\ i.port # "bad"
Declared ==
  IF file.state = "ok" /\ \A k \in DOMAIN file.items : GoodItem(file.items[k])
  THEN {[source |-> file.items[k].from, target |-> file.items[k].to, project |-> ""] : k \in DOMAIN file.items}
  ELSE {}

\* A project runs if a container has its name or was created from its file.
RunsByName(p) == \E b \in Boxes : Exists(b) /\ box[b].project = Name[p]
ProjectIsRunning(p) == \E b \in Boxes : Exists(b) /\ (box[b].project = Name[p] \/ From[b] = p)

Inferred(p) ==
  IF ~ProjectIsRunning(p) THEN {}
  ELSE {[source |-> d[1], target |-> d[2], project |-> Name[p]] : d \in {e \in DependsOn[p] : e[1] \notin Sharing[p]}}

\* A declared pair is not verified again.
Deps ==
  Declared \cup {d \in UNION {Inferred(p) : p \in Projects} :
                   \A e \in Declared : <<e.source, e.target>> # <<d.source, d.target>>}
-----------------------------------------------------------------------------
(* Rule NET-001.                                                           *)

\* The project's containers of that service, or else the container of that
\* name, or else every container of a service of that name.
ByName(ref) ==
  LET exact == {b \in Boxes : Exists(b) /\ ContainerName[b] = ref}
  IN IF exact # {} THEN exact ELSE {b \in Boxes : Exists(b) /\ Service[b] = ref}
Anywhere(ref, dep) == ByName(ref)
Resolve(ref, dep) ==
  LET scoped == {b \in Boxes : Exists(b) /\ box[b].project = dep.project /\ Service[b] = ref}
  IN IF dep.project # "" /\ scoped # {} THEN scoped ELSE ByName(ref)

Reaches(s, t) == box[s].nets \cap box[t].nets # {}

\* Something must be there of both, and every container of the source, running or not, must reach some running one of the target.
SomeSource(sources, targets) == \E s \in sources : \E t \in targets : Reaches(s, t)
AllSources(sources, targets) == \A s \in sources : \E t \in targets : Reaches(s, t)
Vacuous(dep) ==
  IF AllSources(Resolve(dep.source, dep), {t \in Resolve(dep.target, dep) : Running(t)}) THEN "PASS" ELSE "FAIL"
Verdict(dep) ==
  LET sources == Resolve(dep.source, dep)
      targets == {t \in Resolve(dep.target, dep) : Running(t)}
  IN IF sources # {} /\ targets # {} /\ AllSources(sources, targets) THEN "PASS" ELSE "FAIL"
-----------------------------------------------------------------------------
(* The host.                                                               *)
Init ==
  /\ file \in Declarations /\ changes = 0
  /\ box = [b \in Boxes |-> Missing]

Change == changes < MaxChanges /\ changes' = changes + 1 /\ UNCHANGED file

\* docker compose -p label up: of the same project's name the container of a
\* service is replaced, whatever file it is from.  A file is up under one name
\* at a time.
Up(p, label) ==
  /\ Change
  /\ \A b \in Boxes : From[b] = p => box[b].project \in {label, Unlabelled}
  /\ box' = [b \in Boxes |->
       IF From[b] = p THEN [state |-> "running", project |-> label, nets |-> {label}]
       ELSE IF box[b].project = label /\ \E c \in Boxes : From[c] = p /\ Service[c] = Service[b]
       THEN Missing ELSE box[b]]
Down(label) ==
  /\ Change /\ box' = [b \in Boxes |-> IF box[b].project = label THEN Missing ELSE box[b]]
Stop(b) == Change /\ Running(b) /\ box' = [box EXCEPT ![b].state = "exited"]
Remove(b) == Change /\ Exists(b) /\ box' = [box EXCEPT ![b] = Missing]
Connect(b, n) == Change /\ Exists(b) /\ box' = [box EXCEPT ![b].nets = @ \cup {n}]
Disconnect(b, n) == Change /\ n \in box[b].nets /\ box' = [box EXCEPT ![b].nets = @ \ {n}]

Next ==
  \/ \E p \in Projects, label \in Labels : Up(p, label)
  \/ \E label \in Labels : Down(label)
  \/ \E b \in Boxes : Stop(b) \/ Remove(b)
  \/ \E b \in Boxes, n \in External : Connect(b, n)
  \/ \E b \in Boxes, n \in Labels \cup External : Disconnect(b, n)

Spec == Init /\ [][Next]_vars
-----------------------------------------------------------------------------
NamesUsed == STRING \ {""}
TypeOK ==
  /\ file \in Declarations /\ changes \in 0 .. MaxChanges
  /\ box \in [Boxes -> [state : {"missing", "exited", "running"}, project : Labels \cup {Unlabelled},
                        nets : SUBSET (Labels \cup External)]]
  /\ \A b \in Boxes : box[b].state = "missing" <=> box[b].project = Unlabelled
  /\ \A d \in Deps : d.source \in NamesUsed /\ d.target \in NamesUsed

\* p really runs here, and under its own name.
Here(p) == \E b \in Boxes : Exists(b) /\ From[b] = p
Mine(p, service) == {b \in Boxes : Exists(b) /\ From[b] = p /\ Service[b] = service}
Own(p) ==
  /\ Name[p] # ""
  /\ \A b \in Boxes : Exists(b) => (From[b] = p <=> box[b].project = Name[p])

(* Of a project that runs here every dependency is verified, also if it    *)
(* was given another name, and also if dependencies.yaml is broken         *)
(* (README.md:911): as its own, or as declared for all (""), never as that *)
(* of a project of another name.                                           *)
Verified ==
  \A p \in Projects : Here(p) =>
    \A e \in DependsOn[p] :
      e[1] \in Sharing[p] \/ \E d \in Deps : d.source = e[1] /\ d.target = e[2] /\ d.project \in {"", Name[p]}

(* The verdict on a dependency of a project is about its own containers,   *)
(* if it has any of both services: PASS says that each of the one reaches  *)
(* one of the other that runs, FAIL that some does not.                    *)
OwnJudged ==
  \A p \in Projects : Own(p) =>
    \A d \in Inferred(p) :
      Mine(p, d.source) # {} /\ Mine(p, d.target) # {} =>
        (Verdict(d) = "PASS" <=>
           \A s \in Mine(p, d.source) : \E t \in Mine(p, d.target) : Running(t) /\ Reaches(s, t))

(* What is missing is told, unless something else on the host has its name.*)
MissingTold ==
  \A p \in Projects : Here(p) =>
    \A d \in Inferred(p) :
      (\E ref \in {d.source, d.target} : \A b \in Boxes : Exists(b) => ref \notin {Service[b], ContainerName[b]})
        => Verdict(d) = "FAIL"

(* The verdict says what is the case.                                      *)
VerdictTrue == OwnJudged /\ MissingTold

(* What is done to containers of other projects changes no verdict on the  *)
(* dependencies of a project that has containers of both services.         *)
Untouched(p) ==
  \A b \in Boxes : From[b] = p \/ box[b].project = Name[p] \/ box'[b].project = Name[p] => box'[b] = box[b]
Isolated ==
  [][\A p \in Projects : Own(p) /\ Untouched(p) =>
       \A d \in Inferred(p) :
         Mine(p, d.source) # {} /\ Mine(p, d.target) # {} => Verdict(d)' = Verdict(d)]_vars

(* rules/network/dependency.py:6 says that of a dependency it is verified  *)
(* whether both containers exist: of a service of the project that has no  *)
(* container left no other project's container is taken for it.            *)
MissingNoticed ==
  \A p \in Projects : Own(p) /\ Here(p) =>
    \A d \in Inferred(p) : Mine(p, d.target) = {} => Verdict(d) = "FAIL"
=============================================================================
