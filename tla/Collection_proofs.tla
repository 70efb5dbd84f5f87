-------------------------- MODULE Collection_proofs --------------------------
(* What Collection promises of a snapshot, for any number of containers,   *)
(* networks and changes.                                                   *)
EXTENDS Collection, TLAPS

\* History: what holds now has been seen since the backend was tried first.
Seen ==
  /\ \A c \in Containers : box[c] \in was[c]
  /\ \A n \in Networks : net[n] \in netwas[n]
  /\ ~up => sawDown

\* What has been read was true, and what was listed and is not read yet is still to be read.
Genuine ==
  /\ \A c \in DOMAIN got : got[c] \in was[c] /\ Present(got[c])
  /\ \A n \in DOMAIN gotnet : gotnet[n] \in netwas[n] /\ Existing(gotnet[n])

Reading == {"inspect", "networks", "info"}
Whole ==
  /\ answered => pc = "done"
  /\ pc \in Reading \/ answered =>
       \A c \in Containers : (\A b \in was[c] : Present(b)) => c \in todo \cup DOMAIN got
  /\ pc \in {"networks", "info"} \/ answered => todo = {}
  /\ pc \in {"networks", "info"} \/ answered =>
       \A n \in Networks : (\A x \in netwas[n] : Existing(x)) => n \in ntodo \cup DOMAIN gotnet
  /\ pc = "info" \/ answered => ntodo = {}

\* Why a backend failed is true of that backend.
True(e, b) ==
  /\ e = "notInstalled" <=> client[b] = "missing"
  /\ e = "permission" => client[b] = "denied"
  /\ e = "notRunning" => sawDown \/ (b = "sdk" /\ client["sdk"] = "ok")
  /\ e # "malformed"
\* Either the file is read, or Docker.
Apart ==
  /\ client["file"] # "missing" <=> backend = "file"
  /\ pc \in {"file", "crashed"} => backend = "file"
  /\ backend = "file" => pc \in {"file", "done", "crashed"} /\ todo = {} /\ ntodo = {}
Told ==
  /\ backend = "file" /\ pc = "done" /\ ~answered =>
       Len(errors) = 1 /\ errors[1] \in {"malformed", "other"}
  /\ backend = "sdk" => errors = <<>> /\ (pc = "done" => answered)
  /\ backend = "cli" => /\ Len(errors) = IF pc = "done" /\ ~answered THEN 2 ELSE 1
                        /\ True(errors[1], "sdk")
                        /\ Len(errors) = 2 => True(errors[2], "cli")

IInv == CollectTypeOK /\ Seen /\ Genuine /\ Whole /\ Apart /\ Told
-----------------------------------------------------------------------------
(* Every event is a change of Docker to a well-formed one.                 *)
LEMMA EventChanges ==
  ASSUME CollectTypeOK, CollectionAssumption, Event
  PROVE  \E b \in [Containers -> Boxes], n \in [Networks -> Nets], u \in BOOLEAN : Change(b, n, u)
PROOF
<1>0. box \in [Containers -> Boxes] /\ net \in [Networks -> Nets] /\ up \in BOOLEAN BY DEF CollectTypeOK
<1>a. ASSUME NEW c \in Containers, NEW r \in Boxes, Put(c, r)
      PROVE  \E b \in [Containers -> Boxes], n \in [Networks -> Nets], u \in BOOLEAN : Change(b, n, u)
  <2>1. [box EXCEPT ![c] = r] \in [Containers -> Boxes] BY <1>0
  <2> QED BY <1>a, <1>0, <2>1 DEF Put
<1>1. ASSUME NEW c \in Containers, Create(c) \/ StartBox(c) \/ StopBox(c) \/ Remove(c)
      PROVE  \E r \in Boxes : Put(c, r)
  <2>0. box[c] \in Boxes BY <1>0
  <2>1. CASE Create(c)
    <3>1. PICK n \in Networks, o \in BOOLEAN : Put(c, [state |-> "running", nets |-> {n}, open |-> o])
      BY <2>1 DEF Create
    <3>2. [state |-> "running", nets |-> {n}, open |-> o] \in Boxes BY DEF Boxes
    <3> QED BY <3>1, <3>2
  <2>2. CASE StartBox(c)
    <3>1. [box[c] EXCEPT !.state = "running"] \in Boxes BY <2>0 DEF Boxes
    <3> QED BY <2>2, <3>1 DEF StartBox
  <2>3. CASE StopBox(c)
    <3>1. [box[c] EXCEPT !.state = "exited"] \in Boxes BY <2>0 DEF Boxes
    <3> QED BY <2>3, <3>1 DEF StopBox
  <2>4. CASE Remove(c)
    <3>1. [box[c] EXCEPT !.state = "gone"] \in Boxes BY <2>0 DEF Boxes
    <3> QED BY <2>4, <3>1 DEF Remove
  <2> QED BY <1>1, <2>1, <2>2, <2>3, <2>4
<1>2. ASSUME NEW c \in Containers, NEW n \in Networks, ConnectBox(c, n) \/ Disconnect(c, n)
      PROVE  \E r \in Boxes : Put(c, r)
  <2>0. box[c] \in Boxes BY <1>0
  <2>1. CASE ConnectBox(c, n)
    <3>1. [box[c] EXCEPT !.nets = @ \cup {n}] \in Boxes BY <2>0 DEF Boxes
    <3> QED BY <2>1, <3>1 DEF ConnectBox
  <2>2. CASE Disconnect(c, n)
    <3>1. [box[c] EXCEPT !.nets = @ \ {n}] \in Boxes BY <2>0 DEF Boxes
    <3> QED BY <2>2, <3>1 DEF Disconnect
  <2> QED BY <1>2, <2>1, <2>2
<1>3. ASSUME NEW n \in Networks, CreateNetwork(n) \/ RemoveNetwork(n)
      PROVE  \E m \in [Networks -> Nets] : Change(box, m, up)
  <2>1. CASE CreateNetwork(n)
    <3>1. PICK x \in {"open", "closed"} : Change(box, [net EXCEPT ![n] = x], up) BY <2>1 DEF CreateNetwork
    <3>2. [net EXCEPT ![n] = x] \in [Networks -> Nets] BY <1>0 DEF Nets
    <3> QED BY <3>1, <3>2
  <2>2. CASE RemoveNetwork(n)
    <3>1. [net EXCEPT ![n] = "gone"] \in [Networks -> Nets] BY <1>0 DEF Nets
    <3> QED BY <2>2, <3>1 DEF RemoveNetwork
  <2> QED BY <1>3, <2>1, <2>2
<1>4. ASSUME GoDown
      PROVE  \E b \in [Containers -> Boxes] : Change(b, net, FALSE)
  <2> DEFINE halted == [c \in Containers |-> IF box[c].state = "running" THEN [box[c] EXCEPT !.state = "exited"] ELSE box[c]]
  <2>1. halted \in [Containers -> Boxes]
    <3>1. ASSUME NEW c \in Containers
          PROVE (IF box[c].state = "running" THEN [box[c] EXCEPT !.state = "exited"] ELSE box[c]) \in Boxes
      <4>1. box[c] \in Boxes BY <1>0
      <4> QED BY <4>1 DEF Boxes
    <3> QED BY <3>1
  <2> QED BY <1>4, <2>1, <1>0 DEF GoDown
<1>5. ASSUME ComeUp
      PROVE  \E m \in [Networks -> Nets] : Change(box, m, TRUE)
  <2>1. PICK x \in {"open", "closed"} : Change(box, [net EXCEPT ![Bridge] = x], TRUE) BY <1>5 DEF ComeUp
  <2>2. [net EXCEPT ![Bridge] = x] \in [Networks -> Nets] BY <1>0 DEF Nets
  <2> QED BY <2>1, <2>2
<1> QED BY <1>0, <1>a, <1>1, <1>2, <1>3, <1>4, <1>5 DEF Event

(* A backend that fails does so for a reason that is true of it.           *)
FailsTruly(e) == e \in Errors /\ pc \in Calls /\ backend \in Live /\ True(e, backend) /\ Fail(e)

LEMMA FailureIsTrue ==
  ASSUME CollectTypeOK, Seen, Apart,
         \/ CallFails
         \/ Answers /\ pc \in {"inspect", "networks"} /\ Fail("other")
  PROVE  \E e \in Errors : FailsTruly(e)
PROOF
<1>a. pc \in Calls BY DEF CallFails, Calls
<1>b. backend \in Live BY <1>a DEF Apart, Calls, CollectTypeOK, Backends
<1>0. client[backend] \in {"ok", "missing", "denied"} BY <1>b DEF CollectTypeOK, Clientele
<1>1. CASE CallFails
  <2>1. PICK e \in Failures : Fail(e) BY <1>1 DEF CallFails
  <2>2. e \in Errors BY <2>1 DEF Failures, Errors
  <2>3. True(e, backend) BY <1>0, <2>1 DEF Failures, Wraps, True, Seen
  <2> QED BY <1>a, <1>b, <2>1, <2>2, <2>3 DEF FailsTruly
<1>2. CASE Answers /\ pc \in {"inspect", "networks"} /\ Fail("other")
  <2>1. True("other", backend) BY <1>2 DEF Answers, True
  <2>2. FailsTruly("other") BY <1>a, <1>b, <1>2, <2>1 DEF FailsTruly, Errors
  <2> QED BY <2>2 DEF Errors
<1> QED BY <1>1, <1>2

\* The two ways an inspection goes well.
Inspected(c) ==
  /\ pc = "inspect" /\ c \in todo /\ Present(box[c]) /\ todo' = todo \ {c}
  /\ got' = [x \in DOMAIN got \cup {c} |-> IF x = c THEN box[c] ELSE got[x]]
  /\ UNCHANGED <<docker, client, backend, pc, ntodo, gotnet, gotns, errors, answered, history>>
PassedOver(c) ==
  /\ pc = "inspect" /\ c \in todo /\ ~Present(box[c]) /\ todo' = todo \ {c}
  /\ UNCHANGED <<docker, client, backend, pc, ntodo, got, gotnet, gotns, errors, answered, history>>
FoundNetwork(n) ==
  /\ pc = "networks" /\ n \in ntodo /\ Existing(net[n]) /\ ntodo' = ntodo \ {n}
  /\ gotnet' = [x \in DOMAIN gotnet \cup {n} |-> IF x = n THEN net[n] ELSE gotnet[x]]
  /\ UNCHANGED <<docker, client, backend, pc, todo, got, gotns, errors, answered, history>>

LEMMA StepKinds ==
  ASSUME CollectTypeOK, CollectionAssumption, Seen, Apart, CollectNext
  PROVE  \/ \E b \in [Containers -> Boxes], n \in [Networks -> Nets], u \in BOOLEAN : Change(b, n, u)
         \/ \E e \in Errors : FailsTruly(e)
         \/ \E c \in Containers : Inspected(c) \/ PassedOver(c)
         \/ \E n \in Networks : FoundNetwork(n)
         \/ ReadFile \/ Connect \/ List \/ ReadNetworks \/ NetworksRead \/ ReadInfo
PROOF
<1>1. CASE Event BY <1>1, EventChanges
<1>2. CASE CallFails BY <1>2, FailureIsTrue
<1>3. ASSUME NEW c \in Containers, Inspect(c)
      PROVE  Inspected(c) \/ PassedOver(c) \/ \E e \in Errors : FailsTruly(e)
  <2>1. CASE ~Present(box[c]) /\ backend = "cli" /\ Fail("other")
    <3>1. Answers /\ pc \in {"inspect", "networks"} BY <1>3 DEF Inspect
    <3> QED BY <2>1, <3>1, FailureIsTrue
  <2> QED BY <1>3, <2>1 DEF Inspect, Inspected, PassedOver
<1>4. ASSUME NEW n \in Networks, InspectNetwork(n)
      PROVE  FoundNetwork(n) \/ \E e \in Errors : FailsTruly(e)
  <2>1. CASE ~Existing(net[n]) /\ Fail("other")
    <3>1. Answers /\ pc \in {"inspect", "networks"} BY <1>4 DEF InspectNetwork
    <3> QED BY <2>1, <3>1, FailureIsTrue
  <2> QED BY <1>4, <2>1 DEF InspectNetwork, FoundNetwork
<1> QED BY <1>1, <1>2, <1>3, <1>4 DEF CollectNext, Read
-----------------------------------------------------------------------------
LEMMA InitHolds == CollectInit /\ CollectionAssumption => IInv
PROOF
<1> SUFFICES ASSUME CollectInit, CollectionAssumption PROVE IInv OBVIOUS
<1>1. CollectTypeOK
  <2>2. box \in [Containers -> Boxes] /\ net \in [Networks -> Nets] /\ userns \in BOOLEAN
    <3>1. PICK h \in Hosts \cup Files : box = h.box /\ net = h.net /\ userns = h.userns BY DEF CollectInit
    <3> QED BY <3>1 DEF CollectionAssumption
  <2>3. was \in [Containers -> SUBSET Boxes] /\ netwas \in [Networks -> SUBSET Nets] BY <2>2 DEF CollectInit
  <2>4. events \in 0..MaxEvents BY DEF CollectInit, CollectionAssumption
  <2>5. client \in Clientele BY DEF CollectInit, CollectionAssumption
  <2>6. up \in BOOLEAN /\ sawDown \in BOOLEAN BY DEF CollectInit
  <2>7. DOMAIN got = {} /\ DOMAIN gotnet = {} BY DEF CollectInit, Nothing
  <2>8. /\ errors = <<>> /\ todo = {} /\ ntodo = {}
        /\ gotns = FALSE /\ answered = FALSE
    BY DEF CollectInit
  <2>s. <<>> \in Seq(Errors) BY SMT
  <2>9. backend \in Backends /\ pc \in {"connect", "file"} BY DEF CollectInit, Backends, Live
  <2> QED BY <2>2, <2>3, <2>4, <2>5, <2>6, <2>7, <2>8, <2>s, <2>9 DEF CollectTypeOK
<1>2. Seen /\ Genuine /\ Whole /\ Apart /\ Told
  BY DEF CollectInit, Seen, Genuine, Whole, Apart, Told, Nothing, Reading
<1> QED BY <1>1, <1>2 DEF IInv

(* Docker may change at any time: history grows, so more has been seen and *)
(* less has been there all the while.                                      *)
LEMMA ChangeKeeps ==
  ASSUME IInv, CollectionAssumption,
         NEW b \in [Containers -> Boxes], NEW n \in [Networks -> Nets], NEW u \in BOOLEAN, Change(b, n, u)
  PROVE  IInv'
PROOF
<1> USE DEF IInv
<1>0. /\ UNCHANGED <<userns, client, backend, pc, todo, ntodo, got, gotnet, gotns, errors, answered>>
      /\ box' = b /\ net' = n /\ up' = u /\ sawDown' = (sawDown \/ ~u)
      /\ was' = [c \in Containers |-> was[c] \cup {b[c]}]
      /\ netwas' = [m \in Networks |-> netwas[m] \cup {n[m]}]
      /\ events < MaxEvents /\ events' = events + 1
  BY DEF Change, reader
<1>a. was \in [Containers -> SUBSET Boxes] /\ netwas \in [Networks -> SUBSET Nets] BY DEF CollectTypeOK
<1>b. /\ was' \in [Containers -> SUBSET Boxes]
      /\ \A c \in Containers : was'[c] = was[c] \cup {b[c]}
  BY <1>0, <1>a
<1>c. /\ netwas' \in [Networks -> SUBSET Nets]
      /\ \A m \in Networks : netwas'[m] = netwas[m] \cup {n[m]}
  BY <1>0, <1>a
<1>1. CollectTypeOK'
  <2>1. events' \in 0..MaxEvents BY <1>0 DEF CollectTypeOK, CollectionAssumption
  <2>2. up' \in BOOLEAN /\ sawDown' \in BOOLEAN BY <1>0 DEF CollectTypeOK
  <2>3. box' \in [Containers -> Boxes] /\ net' \in [Networks -> Nets] BY <1>0
  <2> QED BY <1>0, <1>b, <1>c, <2>1, <2>2, <2>3 DEF CollectTypeOK
<1>2. Seen' BY <1>0, <1>b, <1>c DEF Seen
<1>3. Genuine' BY <1>0, <1>b, <1>c DEF Genuine, CollectTypeOK
<1>4. Whole' BY <1>0, <1>b, <1>c DEF Whole
<1>5. Apart' /\ Told' BY <1>0 DEF Apart, Told, True
<1> QED BY <1>1, <1>2, <1>3, <1>4, <1>5

(* A backend that fails leaves nothing behind but its reason.              *)
LEMMA FailKeeps ==
  ASSUME IInv, NEW e \in Errors, FailsTruly(e)
  PROVE  IInv'
PROOF
<1> USE DEF IInv
<1>0. /\ errors' = Append(errors, e) /\ e \in Errors /\ True(e, backend)
      /\ todo' = {} /\ ntodo' = {} /\ got' = Nothing /\ gotnet' = Nothing
      /\ UNCHANGED <<box, net, up, userns, events, client, gotns, answered, sawDown>>
      /\ pc # "done" /\ ~answered /\ backend \in Live
  BY DEF FailsTruly, Fail, docker, Whole, Calls
<1>1. DOMAIN got' = {} /\ DOMAIN gotnet' = {} BY <1>0 DEF Nothing
<1>2. errors \in Seq(Errors) /\ errors' \in Seq(Errors) /\ Len(errors') = Len(errors) + 1
      /\ errors'[Len(errors) + 1] = e /\ \A i \in 1..Len(errors) : errors'[i] = errors[i]
  BY <1>0 DEF CollectTypeOK
<1>3. CASE backend = "sdk"
  <2>0. /\ backend' = "cli" /\ pc' = "connect"
        /\ was' = [c \in Containers |-> {box[c]}] /\ netwas' = [n \in Networks |-> {net[n]}]
    BY <1>3 DEF FailsTruly, Fail
  <2>1. was' \in [Containers -> SUBSET Boxes] /\ netwas' \in [Networks -> SUBSET Nets]
    BY <2>0 DEF CollectTypeOK
  <2>2. CollectTypeOK' BY <1>0, <1>1, <1>2, <2>0, <2>1 DEF CollectTypeOK, Backends, Live
  <2>3. Seen' BY <1>0, <2>0 DEF Seen
  <2>4. Genuine' /\ Whole' BY <1>0, <1>1, <2>0 DEF Genuine, Whole, Reading
  <2>5. errors = <<>> BY <1>3 DEF Told
  <2>6. Len(errors') = 1 /\ errors'[1] = e BY <1>2, <2>5
  <2>7. Apart' /\ Told' BY <1>0, <1>3, <2>0, <2>6 DEF Apart, Told, True
  <2> QED BY <2>2, <2>3, <2>4, <2>7
<1>4. CASE backend = "cli"
  <2>0. pc' = "done" /\ UNCHANGED <<backend, was, netwas>> BY <1>4 DEF FailsTruly, Fail
  <2>1. CollectTypeOK' BY <1>0, <1>1, <1>2, <2>0 DEF CollectTypeOK
  <2>2. Seen' BY <1>0, <2>0 DEF Seen
  <2>3. Genuine' /\ Whole' BY <1>0, <1>1, <2>0 DEF Genuine, Whole, Reading
  <2>4. Len(errors) = 1 /\ True(errors[1], "sdk") BY <1>0, <1>4 DEF Told
  <2>5. Len(errors') = 2 /\ errors'[1] = errors[1] /\ errors'[2] = e BY <1>2, <2>4
  <2>6. Apart' /\ Told' BY <1>0, <1>4, <2>0, <2>4, <2>5 DEF Apart, Told, True
  <2> QED BY <2>1, <2>2, <2>3, <2>6
<1> QED BY <1>0, <1>3, <1>4 DEF Live

(* A call that succeeds.                                                   *)
LEMMA CallKeeps ==
  ASSUME IInv,
         \/ \E c \in Containers : Inspected(c) \/ PassedOver(c)
         \/ \E n \in Networks : FoundNetwork(n)
         \/ ReadFile \/ Connect \/ List \/ ReadNetworks \/ NetworksRead \/ ReadInfo
  PROVE  IInv'
PROOF
<1> USE DEF IInv, docker, history
<1>1. ASSUME NEW c \in Containers, Inspected(c)
      PROVE  IInv'
  <2>0. DOMAIN got' = DOMAIN got \cup {c} /\ got'[c] = box[c] /\ \A x \in DOMAIN got \ {c} : got'[x] = got[x]
    BY <1>1 DEF Inspected
  <2>1. CollectTypeOK'
    <3>1. box[c] \in Boxes BY DEF CollectTypeOK
    <3>2. DOMAIN got' \subseteq Containers /\ \A x \in DOMAIN got' : got'[x] \in Boxes
      BY <2>0, <3>1 DEF CollectTypeOK
    <3>3. todo' \subseteq Containers BY <1>1 DEF Inspected, CollectTypeOK
    <3> QED BY <1>1, <3>2, <3>3 DEF Inspected, CollectTypeOK
  <2>2. Seen' /\ Apart' /\ Told' BY <1>1 DEF Inspected, Seen, Apart, Told, True
  <2>3. Genuine' BY <1>1, <2>0 DEF Inspected, Genuine, Seen
  <2>4. Whole' BY <1>1, <2>0 DEF Inspected, Whole, Reading
  <2> QED BY <2>1, <2>2, <2>3, <2>4
<1>2. ASSUME NEW c \in Containers, PassedOver(c)
      PROVE  IInv'
  <2>1. CollectTypeOK' BY <1>2 DEF PassedOver, CollectTypeOK
  <2>2. Seen' /\ Apart' /\ Told' /\ Genuine' BY <1>2 DEF PassedOver, Seen, Apart, Told, True, Genuine
  <2>3. ~(\A b \in was[c] : Present(b)) BY <1>2 DEF PassedOver, Seen
  <2>4. Whole' BY <1>2, <2>3 DEF PassedOver, Whole, Reading
  <2> QED BY <2>1, <2>2, <2>4
<1>3. ASSUME NEW n \in Networks, FoundNetwork(n)
      PROVE  IInv'
  <2>0. DOMAIN gotnet' = DOMAIN gotnet \cup {n} /\ gotnet'[n] = net[n]
        /\ \A x \in DOMAIN gotnet \ {n} : gotnet'[x] = gotnet[x]
    BY <1>3 DEF FoundNetwork
  <2>1. CollectTypeOK'
    <3>1. net[n] \in Nets BY DEF CollectTypeOK
    <3>2. DOMAIN gotnet' \subseteq Networks /\ \A x \in DOMAIN gotnet' : gotnet'[x] \in Nets
      BY <2>0, <3>1 DEF CollectTypeOK
    <3>3. ntodo' \subseteq Networks BY <1>3 DEF FoundNetwork, CollectTypeOK
    <3> QED BY <1>3, <3>2, <3>3 DEF FoundNetwork, CollectTypeOK
  <2>2. Seen' /\ Apart' /\ Told' BY <1>3 DEF FoundNetwork, Seen, Apart, Told, True
  <2>3. Genuine' BY <1>3, <2>0 DEF FoundNetwork, Genuine, Seen
  <2>4. Whole' BY <1>3, <2>0 DEF FoundNetwork, Whole, Reading
  <2> QED BY <2>1, <2>2, <2>3, <2>4
<1>4. CASE Connect BY <1>4 DEF Connect, CollectTypeOK, Seen, Apart, Told, True, Genuine, Whole, Reading
<1>5. CASE List
  <2>1. CollectTypeOK' BY <1>5 DEF List, Listed, CollectTypeOK
  <2>2. Seen' /\ Apart' /\ Told' /\ Genuine' BY <1>5 DEF List, Seen, Apart, Told, True, Genuine
  <2>3. Whole' BY <1>5 DEF List, Listed, Whole, Reading, Seen
  <2> QED BY <2>1, <2>2, <2>3
<1>6. CASE ReadNetworks
  <2> DEFINE now == {n \in Networks : Existing(net[n])}
  <2>0. /\ pc = "inspect" /\ todo = {} /\ pc' = "networks"
        /\ UNCHANGED <<docker, client, backend, todo, got, gotns, errors, answered, history>>
        /\ \/ ntodo' = {} /\ gotnet' = [n \in now |-> net[n]]
           \/ ntodo' = now /\ gotnet' = gotnet
    BY <1>6 DEF ReadNetworks
  <2>1. CollectTypeOK'
    <3>1. ntodo' \subseteq Networks BY <2>0
    <3>2. DOMAIN gotnet' \subseteq Networks /\ \A n \in DOMAIN gotnet' : gotnet'[n] \in Nets
      BY <2>0 DEF CollectTypeOK
    <3> QED BY <2>0, <3>1, <3>2 DEF CollectTypeOK
  <2>2. Seen' /\ Apart' /\ Told' BY <2>0 DEF Seen, Apart, Told, True
  <2>3. Genuine' BY <2>0 DEF Genuine, Seen
  <2>4. Whole' BY <2>0 DEF Whole, Reading, Seen
  <2> QED BY <2>1, <2>2, <2>3, <2>4
<1>7. CASE NetworksRead BY <1>7 DEF NetworksRead, CollectTypeOK, Seen, Apart, Told, True, Genuine, Whole, Reading
<1>8. CASE ReadInfo
  <2>0. gotns' \in BOOLEAN BY <1>8 DEF ReadInfo, CollectTypeOK
  <2> QED BY <1>8, <2>0 DEF ReadInfo, CollectTypeOK, Seen, Apart, Told, True, Genuine, Whole, Reading
<1>9. CASE ReadFile
  <2>0. /\ pc = "file" /\ backend = "file" /\ ~answered
        /\ UNCHANGED <<docker, client, backend, todo, ntodo, history>>
        /\ box \in [Containers -> Boxes] /\ net \in [Networks -> Nets]
    BY <1>9 DEF ReadFile, Apart, Whole, CollectTypeOK
  <2>a. Seen' BY <2>0 DEF Seen
  <2>1. CASE client["file"] = "ok"
    <3>1. /\ pc' = "done" /\ answered' = TRUE /\ gotns' = userns /\ errors' = errors
          /\ got' = [c \in Listed |-> box[c]]
          /\ gotnet' = [n \in {m \in Networks : Existing(net[m])} |-> net[n]]
      BY <1>9, <2>1 DEF ReadFile
    <3>2. /\ DOMAIN got' = Listed /\ \A c \in Listed : got'[c] = box[c]
          /\ DOMAIN gotnet' = {m \in Networks : Existing(net[m])} /\ \A n \in DOMAIN gotnet' : gotnet'[n] = net[n]
      BY <3>1
    <3>3. CollectTypeOK' BY <2>0, <3>1, <3>2 DEF CollectTypeOK, Listed
    <3>4. Genuine' BY <2>0, <3>2 DEF Genuine, Listed, Seen
    <3>5. Whole'
      <4>1. ntodo = {} /\ todo = {} BY <2>0 DEF Apart
      <4> QED BY <2>0, <3>1, <3>2, <4>1 DEF Whole, Listed, Seen
    <3>6. Apart' /\ Told' BY <2>0, <3>1 DEF Apart, Told
    <3> QED BY <2>a, <3>3, <3>4, <3>5, <3>6
  <2>2. CASE client["file"] # "ok"
    <3>1. /\ pc' \in {"done", "crashed"} /\ UNCHANGED <<got, gotnet, gotns, answered>>
          /\ \/ pc' = "done" /\ errors' = <<IF client["file"] = "badItem" THEN "other" ELSE "malformed">>
             \/ pc' = "crashed" /\ errors' = errors
      BY <1>9, <2>2 DEF ReadFile
    <3>2. \A e \in Errors : <<e>> \in Seq(Errors) /\ Len(<<e>>) = 1 /\ <<e>>[1] = e OBVIOUS
    <3>3. CollectTypeOK'
      <4>1. errors' \in Seq(Errors) BY <3>1, <3>2 DEF CollectTypeOK, Errors
      <4> QED BY <2>0, <3>1, <4>1 DEF CollectTypeOK
    <3>4. Genuine' /\ Whole' /\ Apart' BY <2>0, <3>1 DEF Genuine, Whole, Apart, Reading
    <3>5. Told' BY <2>0, <3>1, <3>2 DEF Told, Errors
    <3> QED BY <2>a, <3>3, <3>4, <3>5
  <2> QED BY <2>1, <2>2
<1> QED BY <1>1, <1>2, <1>3, <1>4, <1>5, <1>6, <1>7, <1>8, <1>9
-----------------------------------------------------------------------------
LEMMA IInvHolds == CollectSpec => []IInv
PROOF
<1>1. CollectInit => IInv BY InitHolds, CollectionAssumption
<1>2. IInv /\ [CollectNext]_collection => IInv'
  <2> SUFFICES ASSUME IInv, [CollectNext]_collection PROVE IInv' OBVIOUS
  <2>1. CASE CollectNext
    <3>1. CollectTypeOK /\ Seen /\ Apart BY DEF IInv
    <3> QED BY <2>1, <3>1, StepKinds, ChangeKeeps, FailKeeps, CallKeeps, CollectionAssumption
  <2>2. CASE UNCHANGED collection
    BY <2>2 DEF IInv, CollectTypeOK, Seen, Genuine, Whole, Apart, Told, True, collection, docker, reader, history
  <2> QED BY <2>1, <2>2
<1> QED BY <1>1, <1>2, PTL DEF CollectSpec

(* What info() says of user namespaces is so.                              *)
Lasting == gotns => userns

LEMMA LastingInit == CollectInit => Lasting
PROOF
BY DEF CollectInit, Lasting

LEMMA LastingKept ==
  ASSUME CollectTypeOK, Seen, Apart, CollectionAssumption, Lasting, CollectNext
  PROVE  Lasting'
PROOF
<1>1. ASSUME UNCHANGED <<gotns, userns>> PROVE Lasting' BY <1>1 DEF Lasting
<1>2. ASSUME NEW b, NEW n, NEW u, Change(b, n, u) PROVE Lasting' BY <1>1, <1>2 DEF Change, reader
<1>3. ASSUME NEW e, FailsTruly(e) PROVE Lasting' BY <1>1, <1>3 DEF FailsTruly, Fail, docker
<1>4. ASSUME NEW c, Inspected(c) \/ PassedOver(c) PROVE Lasting' BY <1>1, <1>4 DEF Inspected, PassedOver, docker
<1>5. ASSUME NEW n, FoundNetwork(n) PROVE Lasting' BY <1>1, <1>5 DEF FoundNetwork, docker
<1>6. CASE Connect \/ List \/ ReadNetworks \/ NetworksRead
  BY <1>1, <1>6 DEF Connect, List, ReadNetworks, NetworksRead, docker
<1>7. CASE ReadInfo
  <2>1. gotns' = FALSE \/ gotns' = userns BY <1>7 DEF ReadInfo
  <2> QED BY <1>7, <2>1 DEF ReadInfo, docker, Lasting
<1>8. CASE ReadFile BY <1>8 DEF ReadFile, docker, Lasting
<1> QED BY <1>2, <1>3, <1>4, <1>5, <1>6, <1>7, <1>8, StepKinds

(* Every reachable state of the collection is well-typed.                  *)
THEOREM CollectionTyped == CollectSpec => []CollectTypeOK
PROOF
<1>1. IInv => CollectTypeOK BY DEF IInv
<1> QED BY <1>1, IInvHolds, PTL

(* However Docker changes between two calls, a snapshot holds nothing that *)
(* was not so at some moment while the backend that answered was read.     *)
THEOREM NothingIsInvented == CollectSpec => []NothingInvented
PROOF
<1>1. IInv => NothingInvented BY DEF IInv, Genuine, NothingInvented
<1> QED BY <1>1, IInvHolds, PTL

(* A container or network that existed all the while is in the snapshot.   *)
THEOREM NothingIsMissed == CollectSpec => []NothingMissed
PROOF
<1>1. IInv => NothingMissed
  <2> SUFFICES ASSUME IInv, answered PROVE NothingMissed BY DEF NothingMissed
  <2>1. todo = {} /\ ntodo = {} BY DEF IInv, Whole
  <2>2. \A c \in Containers : (\A b \in was[c] : Present(b)) => c \in DOMAIN got BY <2>1 DEF IInv, Whole
  <2>3. \A n \in Networks : (\A x \in netwas[n] : Existing(x)) => n \in DOMAIN gotnet BY <2>1 DEF IInv, Whole
  <2> QED BY <2>2, <2>3 DEF NothingMissed
<1> QED BY <1>1, IInvHolds, PTL

(* When no backend answered, the reason given is the one to act on; of a   *)
(* snapshot that is no good nothing is said of Docker.                     *)
THEOREM ReasonIsTrue == CollectSpec => []ReasonTrue
PROOF
<1>1. IInv => ReasonTrue
  <2> SUFFICES ASSUME IInv, pc = "done", ~answered PROVE ReasonTrue BY DEF ReasonTrue
  <2>f. CASE backend = "file"
    <3>1. Len(errors) = 1 /\ errors[1] \in {"malformed", "other"} BY <2>f DEF IInv, Told
    <3>2. errors \in Seq(Errors) BY DEF IInv, CollectTypeOK
    <3>3. DOMAIN errors = {1} BY <3>1, <3>2
    <3>4. Reason = errors[1]
      <4>1. {i \in DOMAIN errors : errors[i] # "notInstalled"} = {1} BY <3>1, <3>3
      <4>2. (CHOOSE i \in {1} : \A j \in {1} : i <= j) = 1 OBVIOUS
      <4>3. {errors[i] : i \in DOMAIN errors} = {errors[1]} BY <3>3
      <4> QED BY <3>1, <4>1, <4>2, <4>3 DEF Reason
    <3> QED BY <2>f, <3>1, <3>4 DEF IInv, Apart, ReasonTrue
  <2>c. CASE backend # "file"
    <3>0. backend = "cli" /\ client \in Clientele /\ errors \in Seq(Errors)
      BY <2>c DEF IInv, CollectTypeOK, Backends, Live, Told
    <3>1. /\ Len(errors) = 2 /\ True(errors[1], "sdk") /\ True(errors[2], "cli")
          /\ errors[1] \in Errors /\ errors[2] \in Errors
      BY <3>0 DEF IInv, Told
    <3> DEFINE e1 == errors[1]
               e2 == errors[2]
    <3>2. DOMAIN errors = {1, 2} BY <3>0, <3>1
    <3>3. {errors[i] : i \in DOMAIN errors} = {e1, e2} BY <3>2
    <3>4. Reason = IF "permission" \in {e1, e2} THEN "permission"
                   ELSE IF "notRunning" \in {e1, e2} THEN "notRunning"
                   ELSE IF e1 # "notInstalled" THEN e1 ELSE e2
      <4> DEFINE specific == {i \in DOMAIN errors : errors[i] # "notInstalled"}
                 first == CHOOSE i \in specific : \A j \in specific : i <= j
      <4>1. CASE e1 # "notInstalled"
        <5>1. 1 \in specific /\ \A j \in specific : 1 <= j BY <4>1, <3>2
        <5>2. first \in specific /\ \A j \in specific : first <= j BY <5>1
        <5>3. first = 1 BY <5>1, <5>2, <3>2
        <5> QED BY <4>1, <5>1, <5>3, <3>3 DEF Reason
      <4>2. CASE e1 = "notInstalled" /\ e2 # "notInstalled"
        <5>1. specific = {2} BY <4>2, <3>2
        <5>2. first = 2 BY <5>1
        <5> QED BY <4>2, <5>1, <5>2, <3>3 DEF Reason
      <4>3. CASE e1 = "notInstalled" /\ e2 = "notInstalled"
        <5>1. specific = {} BY <4>3, <3>2
        <5> QED BY <4>3, <5>1, <3>3 DEF Reason
      <4> QED BY <4>1, <4>2, <4>3
    <3>5. client["sdk"] \in {"ok", "missing", "denied"} /\ client["cli"] \in {"ok", "missing", "denied"}
      BY <3>0 DEF Clientele, Live
    <3>6. client["file"] = "missing" BY <2>c DEF IInv, Apart
    <3> QED BY <2>c, <3>1, <3>2, <3>4, <3>5, <3>6 DEF ReasonTrue, True, Errors, Live
  <2> QED BY <2>f, <2>c
<1> QED BY <1>1, IInvHolds, PTL
=============================================================================
