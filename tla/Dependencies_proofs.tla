-------------------------- MODULE Dependencies_proofs --------------------------
(* What Dependencies promises for any projects, containers and networks,   *)
(* and for any number of changes of the host.                              *)
EXTENDS Dependencies, TLAPS

LEMMA DepsType == ASSUME NEW d \in Deps, file \in Declarations PROVE d.source \in NamesUsed /\ d.target \in NamesUsed
PROOF
<1>1. CASE d \in Declared
  <2>1. PICK k \in DOMAIN file.items :
          /\ GoodItem(file.items[k]) /\ file.state = "ok"
          /\ d = [source |-> file.items[k].from, target |-> file.items[k].to, project |-> ""]
    BY <1>1 DEF Declared
  <2>2. file.items[k] \in Items
    <3>1. file.items \in Seq(Items) BY DependenciesAssumption DEF DependenciesAssumption
    <3> QED BY <3>1
  <2>3. file.items[k].from \in STRING /\ file.items[k].to \in STRING BY <2>2 DEF Items
  <2> QED BY <2>1, <2>3 DEF GoodItem, NamesUsed
<1>2. CASE \E p \in Projects : d \in Inferred(p)
  <2>1. PICK p \in Projects : d \in Inferred(p) BY <1>2
  <2>2. PICK e \in DependsOn[p] : d = [source |-> e[1], target |-> e[2], project |-> Name[p]]
    BY <2>1 DEF Inferred
  <2>3. e \in STRING \X STRING /\ e[1] # "" /\ e[2] # "" BY <2>2, DependenciesAssumption DEF DependenciesAssumption
  <2> QED BY <2>2, <2>3 DEF NamesUsed
<1> QED BY <1>1, <1>2 DEF Deps

\* Of containers, whatever happens to one at a time.
Container == [state : {"missing", "exited", "running"}, project : Labels \cup {Unlabelled}, nets : SUBSET (Labels \cup External)]
Sensible(c) == c \in Container /\ (c.state = "missing" <=> c.project = Unlabelled)
StateOK ==
  /\ file \in Declarations /\ changes \in 0 .. MaxChanges
  /\ box \in [Boxes -> Container] /\ \A b \in Boxes : Sensible(box[b])

LEMMA StateInit == Init => StateOK
PROOF
<1> SUFFICES ASSUME Init PROVE StateOK OBVIOUS
<1>0. MaxChanges \in Nat BY DependenciesAssumption DEF DependenciesAssumption
<1>1. file \in Declarations /\ changes \in 0 .. MaxChanges BY <1>0 DEF Init
<1>2. Sensible(Missing) BY DEF Sensible, Container, Missing
<1>3. box \in [Boxes -> Container] /\ \A b \in Boxes : Sensible(box[b]) BY <1>2 DEF Init, Sensible
<1> QED BY <1>1, <1>3 DEF StateOK

LEMMA StateNext == ASSUME StateOK, [Next]_vars PROVE StateOK'
PROOF
<1>0. /\ box \in [Boxes -> Container] /\ (\A b \in Boxes : Sensible(box[b]))
      /\ MaxChanges \in Nat /\ Unlabelled \notin Labels
  BY DependenciesAssumption DEF DependenciesAssumption, StateOK
<1>1. Sensible(Missing) BY DEF Sensible, Container, Missing
<1>2. ASSUME NEW c, NEW n \in Labels \cup External, Sensible(c)
      PROVE  Sensible([c EXCEPT !.nets = @ \cup {n}]) /\ Sensible([c EXCEPT !.nets = @ \ {n}])
  BY <1>2 DEF Sensible, Container
<1>3. ASSUME box' \in [Boxes -> Container], \A b \in Boxes : Sensible(box'[b]), file' = file, changes' \in 0 .. MaxChanges
      PROVE  StateOK'
  BY <1>3 DEF StateOK
<1>4. ASSUME Change PROVE file' = file /\ changes' \in 0 .. MaxChanges
  BY <1>0, <1>4 DEF Change, StateOK
<1>5. ASSUME NEW p \in Projects, NEW label \in Labels, Up(p, label) PROVE StateOK'
  <2>1. Sensible([state |-> "running", project |-> label, nets |-> {label}]) BY <1>0 DEF Sensible, Container
  <2>2. ASSUME NEW b \in Boxes PROVE Sensible(box'[b])
    BY <1>0, <1>1, <1>5, <2>1 DEF Up
  <2>3. box' \in [Boxes -> Container] BY <1>5, <2>2 DEF Up, Sensible
  <2> QED BY <1>3, <1>4, <1>5, <2>2, <2>3 DEF Up
<1>6. ASSUME NEW label \in Labels, Down(label) PROVE StateOK'
  <2>1. ASSUME NEW b \in Boxes PROVE Sensible(box'[b]) BY <1>0, <1>1, <1>6 DEF Down
  <2>2. box' \in [Boxes -> Container] BY <1>6, <2>1 DEF Down, Sensible
  <2> QED BY <1>3, <1>4, <1>6, <2>1, <2>2 DEF Down
<1>7. ASSUME NEW b \in Boxes, NEW c, Sensible(c), box' = [box EXCEPT ![b] = c], Change PROVE StateOK'
  <2>1. (\A x \in Boxes : Sensible(box'[x])) /\ box' \in [Boxes -> Container] BY <1>0, <1>7 DEF Sensible
  <2> QED BY <1>3, <1>4, <1>7, <2>1
<1>8. ASSUME NEW b \in Boxes, Stop(b) PROVE StateOK'
  <2>1. Sensible([box[b] EXCEPT !.state = "exited"]) BY <1>0, <1>8 DEF Stop, Running, Sensible, Container
  <2>2. box' = [box EXCEPT ![b] = [box[b] EXCEPT !.state = "exited"]] BY <1>0, <1>8 DEF Stop
  <2> QED BY <1>7, <1>8, <2>1, <2>2 DEF Stop
<1>9. ASSUME NEW b \in Boxes, Remove(b) PROVE StateOK' BY <1>1, <1>7, <1>9 DEF Remove
<1>10. ASSUME NEW b \in Boxes, NEW n \in External, Connect(b, n) PROVE StateOK'
  <2>1. Sensible([box[b] EXCEPT !.nets = @ \cup {n}]) BY <1>0, <1>2
  <2>2. box' = [box EXCEPT ![b] = [box[b] EXCEPT !.nets = @ \cup {n}]] BY <1>0, <1>10 DEF Connect
  <2> QED BY <1>7, <1>10, <2>1, <2>2 DEF Connect
<1>11. ASSUME NEW b \in Boxes, NEW n \in Labels \cup External, Disconnect(b, n) PROVE StateOK'
  <2>1. Sensible([box[b] EXCEPT !.nets = @ \ {n}]) BY <1>0, <1>2
  <2>2. box' = [box EXCEPT ![b] = [box[b] EXCEPT !.nets = @ \ {n}]] BY <1>0, <1>11 DEF Disconnect
  <2> QED BY <1>7, <1>11, <2>1, <2>2 DEF Disconnect
<1>12. CASE UNCHANGED vars
  <2>1. box' = box /\ file' = file /\ changes' = changes BY <1>12 DEF vars
  <2> QED BY <1>0, <1>3, <2>1 DEF StateOK
<1> QED BY <1>5, <1>6, <1>8, <1>9, <1>10, <1>11, <1>12 DEF Next

(* The state has its type: of nothing nameless a dependency is made, from  *)
(* whatever dependencies.yaml says.                                        *)
THEOREM TypeCorrect == Spec => []TypeOK
PROOF
<1>1. StateOK => TypeOK
  <2>1. StateOK => \A d \in Deps : d.source \in NamesUsed /\ d.target \in NamesUsed BY DepsType DEF StateOK
  <2> QED BY <2>1 DEF StateOK, TypeOK, Container, Sensible
<1> QED BY <1>1, StateInit, StateNext, PTL DEF Spec
-----------------------------------------------------------------------------
(* Of every project with a container here all that depends_on says is      *)
(* verified, as the project's own or as a pair of dependencies.yaml.       *)
THEOREM AllVerified == Spec => []Verified
PROOF
<1>1. Verified
  <2> SUFFICES ASSUME NEW p \in Projects, Here(p), NEW e \in DependsOn[p], e[1] \notin Sharing[p]
               PROVE  \E d \in Deps : d.source = e[1] /\ d.target = e[2] /\ d.project \in {"", Name[p]}
    BY DEF Verified
  <2> DEFINE d == [source |-> e[1], target |-> e[2], project |-> Name[p]]
  <2>1. ProjectIsRunning(p) BY DEF Here, ProjectIsRunning
  <2>2. d \in Inferred(p) BY <2>1 DEF Inferred
  <2>3. CASE \E x \in Declared : <<x.source, x.target>> = <<e[1], e[2]>>
    <3>1. PICK x \in Declared : x.source = e[1] /\ x.target = e[2] BY <2>3
    <3>2. x.project = ""
      <4>1. PICK k \in DOMAIN file.items : x = [source |-> file.items[k].from, target |-> file.items[k].to, project |-> ""]
        BY DEF Declared
      <4> QED BY <4>1
    <3> QED BY <3>1, <3>2 DEF Deps
  <2>4. CASE \A x \in Declared : <<x.source, x.target>> # <<e[1], e[2]>>
    <3>1. d \in Deps BY <2>2, <2>4 DEF Deps
    <3> QED BY <3>1
  <2> QED BY <2>3, <2>4
<1> QED BY <1>1, PTL
-----------------------------------------------------------------------------
LEMMA InferredProject ==
  ASSUME NEW p \in Projects, NEW d \in Inferred(p) PROVE d.project = Name[p]
PROOF
BY DEF Inferred

\* A name of a project that is alone of its name stands for what the project has.
Scoped(p, ref) == {b \in Boxes : Exists(b) /\ box[b].project = Name[p] /\ Service[b] = ref}
LEMMA OwnResolved ==
  ASSUME NEW p \in Projects, Own(p), NEW d \in Inferred(p), NEW ref, Mine(p, ref) # {}
  PROVE  Resolve(ref, d) = Mine(p, ref) /\ Scoped(p, ref) = Mine(p, ref)
PROOF
<1>1. Scoped(p, ref) = Mine(p, ref) BY DEF Scoped, Mine, Own
<1>2. d.project = Name[p] /\ Name[p] # "" BY InferredProject DEF Own
<1> QED BY <1>1, <1>2 DEF Resolve, Scoped

(* PASS and FAIL mean what they say of the project's own containers,       *)
(* whatever the containers of other projects are called.                   *)
LEMMA OwnIsJudged == OwnJudged
PROOF
<1>1. OwnJudged
  <2> SUFFICES ASSUME NEW p \in Projects, Own(p), NEW d \in Inferred(p), Mine(p, d.source) # {}, Mine(p, d.target) # {}
               PROVE  Verdict(d) = "PASS" <=>
                        \A s \in Mine(p, d.source) : \E t \in Mine(p, d.target) : Running(t) /\ Reaches(s, t)
    BY DEF OwnJudged
  <2>1. Resolve(d.source, d) = Mine(p, d.source) /\ Resolve(d.target, d) = Mine(p, d.target) BY OwnResolved
  <2> QED BY <2>1 DEF Verdict, AllSources
<1> QED BY <1>1

(* A service that has no container, and no namesake, is told.              *)
LEMMA MissingIsTold == MissingTold
PROOF
<1>1. MissingTold
  <2> SUFFICES ASSUME NEW p \in Projects, NEW d \in Inferred(p), NEW ref \in {d.source, d.target},
                      \A b \in Boxes : Exists(b) => ref \notin {Service[b], ContainerName[b]}
               PROVE  Verdict(d) = "FAIL"
    BY DEF MissingTold
  <2>1. Resolve(ref, d) = {} BY DEF Resolve, ByName
  <2> QED BY <2>1 DEF Verdict
<1> QED BY <1>1

(* What NET-001 says of a project's dependency is so, whatever other       *)
(* projects run beside it.                                                 *)
THEOREM VerdictIsTrue == Spec => []VerdictTrue
PROOF
<1> QED BY OwnIsJudged, MissingIsTold, PTL DEF VerdictTrue

(* Nothing that is done to the containers of others changes what is said   *)
(* of a project that has containers of both services.                      *)
THEOREM VerdictsAreIsolated == Spec => Isolated
PROOF
<1>1. ASSUME NEW p \in Projects, Own(p), Untouched(p), NEW d \in Inferred(p), Mine(p, d.source) # {}, Mine(p, d.target) # {}
      PROVE  Verdict(d)' = Verdict(d)
  <2>1. d.project = Name[p] /\ Name[p] # "" BY <1>1, InferredProject DEF Own
  <2>2. ASSUME NEW ref, Mine(p, ref) # {}
        PROVE  /\ Resolve(ref, d)' = Resolve(ref, d)
               /\ \A b \in Resolve(ref, d) : box'[b] = box[b]
    <3>1. Resolve(ref, d) = Mine(p, ref) /\ Scoped(p, ref) = Mine(p, ref) BY <1>1, <2>2, OwnResolved
    <3>2. \A b \in Boxes : (Exists(b) /\ box[b].project = Name[p])' <=> (Exists(b) /\ box[b].project = Name[p])
      BY <1>1 DEF Untouched, Exists
    <3>3. Scoped(p, ref)' = Scoped(p, ref) BY <3>2 DEF Scoped
    <3>4. Resolve(ref, d)' = Scoped(p, ref)' BY <2>1, <2>2, <3>1, <3>3 DEF Resolve, Scoped
    <3>5. \A b \in Mine(p, ref) : box'[b] = box[b] BY <1>1 DEF Untouched, Mine
    <3> QED BY <3>1, <3>3, <3>4, <3>5
  <2> DEFINE sources == Resolve(d.source, d)
             targets == {t \in Resolve(d.target, d) : Running(t)}
  <2>3. sources' = sources /\ targets' = targets BY <1>1, <2>2 DEF Running
  <2>4. \A s \in sources, t \in targets : Reaches(s, t)' = Reaches(s, t) BY <1>1, <2>2 DEF Reaches
  <2>5. AllSources(sources, targets)' = AllSources(sources, targets) BY <2>3, <2>4 DEF AllSources
  <2> QED BY <2>3, <2>5 DEF Verdict
<1>2. [\A p \in Projects : Own(p) /\ Untouched(p) =>
         \A d \in Inferred(p) :
           Mine(p, d.source) # {} /\ Mine(p, d.target) # {} => Verdict(d)' = Verdict(d)]_vars
  BY <1>1
<1> QED BY <1>2, PTL DEF Isolated
=============================================================================
