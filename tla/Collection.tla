------------------------------ MODULE Collection ------------------------------
(***************************************************************************)
(* collect_runtime (src/dockguard/core/docker_runtime.py): the containers  *)
(* and networks of a Docker that goes on working are read call by call,    *)
(* first through the SDK and, when any call of that fails, all over again  *)
(* through the docker command; or a snapshot file is read, and then no     *)
(* Docker is asked.  Docker itself is external: what may happen to it      *)
(* between two calls is bounded by MaxEvents.                              *)
(*                                                                         *)
(* A container is identified by its id: one that is removed does not come  *)
(* back.  Of what docker inspect says of it the model keeps what the rules *)
(* that read the snapshot tell apart.                                      *)
(***************************************************************************)
EXTENDS Naturals, Sequences, FiniteSets

CONSTANTS
  Containers, Networks,
  Bridge, Host,  \* the default bridge, and the network of network_mode: host
  Hosts,         \* what Docker may be when the scan starts
  Files,         \* what a snapshot file may say of the Docker it was taken of
  Clients,       \* what stands between dockguard and Docker
  MaxEvents      \* how often Docker changes while it is being read

Live == {"sdk", "cli"}
Backends == Live \cup {"file"}
\* Of the file: not given, good, not a snapshot, with an item that is none, not even text.
Clientele ==
  {k \in [Backends -> {"ok", "missing", "denied", "malformed", "badItem", "fatal"}] :
     (\A b \in Live : k[b] \in {"ok", "missing", "denied"}) /\ k["file"] # "denied"}
Errors == {"permission", "notRunning", "notInstalled", "malformed", "other"}
Boxes == [state : {"new", "running", "exited", "gone"}, nets : SUBSET Networks, open : BOOLEAN]
Nets == {"new", "open", "closed", "gone"}

Present(b) == b.state \in {"running", "exited"}
Existing(n) == n \in {"open", "closed"}

ASSUME CollectionAssumption ==
  /\ {Bridge, Host} \subseteq Networks /\ Bridge # Host
  /\ Hosts \cup Files \subseteq [box : [Containers -> Boxes], net : [Networks -> Nets], userns : BOOLEAN]
  /\ \A h \in Hosts : \A n \in Networks : IF n \in {Bridge, Host} THEN Existing(h.net[n]) ELSE h.net[n] # "gone"
  /\ Clients \subseteq Clientele
  /\ MaxEvents \in Nat

VARIABLES
  box, net, up,  \* Docker, or the file's: its containers, its networks (open: icc allowed), does dockerd answer
  userns,        \* Docker: does dockerd run with user namespaces
  events,        \* the changes so far
  client,        \* of each backend: there and allowed, not installed, no permission, or what the file is
  backend, pc,   \* which backend is being read, and how far
  todo, ntodo,   \* listed, not yet inspected
  got, gotnet,   \* what has been read, by container and by network
  gotns,         \* what info() said of user namespaces
  errors,        \* why backends failed, in order
  answered,      \* DockerRuntime.available
  was, netwas,   \* history: all that was true since this backend was tried first
  sawDown        \* history: dockerd did not answer at some time

docker == <<box, net, up, userns, events>>
reader == <<backend, pc, todo, ntodo, got, gotnet, gotns, errors, answered>>
history == <<was, netwas, sawDown>>
collection == <<docker, client, reader, history>>

CollectTypeOK ==
  /\ box \in [Containers -> Boxes] /\ net \in [Networks -> Nets] /\ up \in BOOLEAN /\ userns \in BOOLEAN
  /\ events \in 0..MaxEvents /\ client \in Clientele
  /\ backend \in Backends
  /\ pc \in {"connect", "list", "inspect", "networks", "info", "file", "done", "crashed"}
  /\ todo \subseteq Containers /\ ntodo \subseteq Networks
  /\ DOMAIN got \subseteq Containers /\ \A c \in DOMAIN got : got[c] \in Boxes
  /\ DOMAIN gotnet \subseteq Networks /\ \A n \in DOMAIN gotnet : gotnet[n] \in Nets
  /\ gotns \in BOOLEAN /\ errors \in Seq(Errors) /\ answered \in BOOLEAN
  /\ was \in [Containers -> SUBSET Boxes] /\ netwas \in [Networks -> SUBSET Nets]
  /\ sawDown \in BOOLEAN

Nothing == [x \in {} |-> x]

CollectInit ==
  /\ client \in Clients
  /\ IF client["file"] = "missing" THEN backend = "sdk" /\ pc = "connect" ELSE backend = "file" /\ pc = "file"
  /\ \E h \in IF backend = "file" THEN Files ELSE Hosts : box = h.box /\ net = h.net /\ userns = h.userns
  /\ up \in BOOLEAN /\ events = 0
  /\ todo = {} /\ ntodo = {} /\ got = Nothing /\ gotnet = Nothing /\ gotns = FALSE
  /\ errors = <<>> /\ answered = FALSE
  /\ was = [c \in Containers |-> {box[c]}] /\ netwas = [n \in Networks |-> {net[n]}]
  /\ sawDown = ~up
-----------------------------------------------------------------------------
(* Docker goes on working.                                                 *)
Calls == {"connect", "list", "inspect", "networks"}
Change(b, n, u) ==
  /\ pc \in Calls \cup {"info"} /\ events < MaxEvents /\ events' = events + 1
  /\ box' = b /\ net' = n /\ up' = u
  /\ was' = [c \in Containers |-> was[c] \cup {b[c]}]
  /\ netwas' = [m \in Networks |-> netwas[m] \cup {n[m]}]
  /\ sawDown' = (sawDown \/ ~u)
  /\ UNCHANGED <<userns, client, reader>>

Put(c, b) == up /\ Change([box EXCEPT ![c] = b], net, up)

Create(c) ==
  /\ box[c].state = "new"
  /\ \E n \in Networks, o \in BOOLEAN :
       Existing(net[n]) /\ Put(c, [state |-> "running", nets |-> {n}, open |-> o])
StartBox(c) == box[c].state = "exited" /\ Put(c, [box[c] EXCEPT !.state = "running"])
StopBox(c) == box[c].state = "running" /\ Put(c, [box[c] EXCEPT !.state = "exited"])
Remove(c) == Present(box[c]) /\ Put(c, [box[c] EXCEPT !.state = "gone"])
ConnectBox(c, n) ==
  /\ Present(box[c]) /\ Existing(net[n]) /\ n # Host /\ Host \notin box[c].nets
  /\ n \notin box[c].nets /\ Put(c, [box[c] EXCEPT !.nets = @ \cup {n}])
Disconnect(c, n) ==
  /\ Present(box[c]) /\ n \in box[c].nets \ {Host} /\ Put(c, [box[c] EXCEPT !.nets = @ \ {n}])
CreateNetwork(n) == up /\ net[n] = "new" /\ \E x \in {"open", "closed"} : Change(box, [net EXCEPT ![n] = x], up)
RemoveNetwork(n) ==
  /\ up /\ Existing(net[n]) /\ n \notin {Bridge, Host}
  /\ \A c \in Containers : Present(box[c]) => n \notin box[c].nets
  /\ Change(box, [net EXCEPT ![n] = "gone"], up)
GoDown ==  \* with live-restore, and without
  /\ up
  /\ \/ Change(box, net, FALSE)
     \/ Change([c \in Containers |-> IF box[c].state = "running" THEN [box[c] EXCEPT !.state = "exited"] ELSE box[c]],
               net, FALSE)
ComeUp ==  \* and takes over the icc daemon.json has by then
  /\ ~up /\ \E x \in {"open", "closed"} : Change(box, [net EXCEPT ![Bridge] = x], TRUE)

Event ==
  \/ \E c \in Containers : Create(c) \/ StartBox(c) \/ StopBox(c) \/ Remove(c)
  \/ \E c \in Containers, n \in Networks : ConnectBox(c, n) \/ Disconnect(c, n)
  \/ \E n \in Networks : CreateNetwork(n) \/ RemoveNetwork(n)
  \/ GoDown \/ ComeUp
-----------------------------------------------------------------------------
(* The reader.                                                             *)
Answers == up /\ client[backend] = "ok"

\* The SDK wraps what goes wrong while it connects, a timeout too, in a text that
\* is taken for a dockerd that does not run, unless it says "permission denied".
Wraps == backend = "sdk" /\ pc = "connect" /\ client["sdk"] = "ok"

\* classify_docker_error of what a call may fail with now, a timeout being "other".
Failures ==
  IF client[backend] = "missing" THEN {"notInstalled"}
  ELSE {"other"} \cup (IF ~up \/ Wraps THEN {"notRunning"} ELSE {})
                 \cup (IF client[backend] = "denied" THEN {"permission"} ELSE {})

KeepingRead(e) ==
  /\ errors' = Append(errors, e)
  /\ IF backend = "sdk"
     THEN /\ backend' = "cli" /\ pc' = "connect"
          /\ was' = [c \in Containers |-> {box[c]}] /\ netwas' = [n \in Networks |-> {net[n]}]
     ELSE pc' = "done" /\ UNCHANGED <<backend, was, netwas>>
  /\ UNCHANGED <<docker, client, todo, ntodo, got, gotnet, gotns, answered, sawDown>>
\* DockerUnavailable: what this backend gave is dropped, and the next is tried.
Fail(e) ==
  /\ errors' = Append(errors, e)
  /\ IF backend = "sdk"
     THEN /\ backend' = "cli" /\ pc' = "connect"
          /\ was' = [c \in Containers |-> {box[c]}] /\ netwas' = [n \in Networks |-> {net[n]}]
     ELSE pc' = "done" /\ UNCHANGED <<backend, was, netwas>>
  /\ todo' = {} /\ ntodo' = {} /\ got' = Nothing /\ gotnet' = Nothing
  /\ UNCHANGED <<docker, client, gotns, answered, sawDown>>

CallFails == pc \in Calls /\ \E e \in Failures : Fail(e)

\* ping(), docker version
Connect ==
  /\ pc = "connect" /\ Answers /\ pc' = "list"
  /\ UNCHANGED <<docker, client, backend, todo, ntodo, got, gotnet, gotns, errors, answered, history>>

\* containers.list(all=True), docker ps -aq
RunningOnly == {c \in Containers : box[c].state = "running"}
Listed == {c \in Containers : Present(box[c])}
List ==
  /\ pc = "list" /\ Answers /\ pc' = "inspect" /\ todo' = Listed
  /\ UNCHANGED <<docker, client, backend, ntodo, got, gotnet, gotns, errors, answered, history>>

\* The SDK inspects one id after the other and skips one that is gone; docker inspect fails on it.
Inspect(c) ==
  /\ pc = "inspect" /\ c \in todo /\ Answers
  /\ \/ /\ Present(box[c]) /\ todo' = todo \ {c}
        /\ got' = [x \in DOMAIN got \cup {c} |-> IF x = c THEN box[c] ELSE got[x]]
        /\ UNCHANGED <<docker, client, backend, pc, ntodo, gotnet, gotns, errors, answered, history>>
     \/ /\ ~Present(box[c]) /\ backend = "sdk" /\ todo' = todo \ {c}
        /\ UNCHANGED <<docker, client, backend, pc, ntodo, got, gotnet, gotns, errors, answered, history>>
     \/ ~Present(box[c]) /\ backend = "cli" /\ Fail("other")

\* api.networks() returns them all at once; docker network ls lists the ids to inspect.
ReadNetworks ==
  LET now == {n \in Networks : Existing(net[n])}
  IN /\ pc = "inspect" /\ todo = {} /\ Answers /\ pc' = "networks"
     /\ IF backend = "sdk" THEN ntodo' = {} /\ gotnet' = [n \in now |-> net[n]]
                           ELSE ntodo' = now /\ gotnet' = gotnet
     /\ UNCHANGED <<docker, client, backend, todo, got, gotns, errors, answered, history>>

InspectNetwork(n) ==
  /\ pc = "networks" /\ n \in ntodo /\ Answers
  /\ \/ /\ Existing(net[n]) /\ ntodo' = ntodo \ {n}
        /\ gotnet' = [x \in DOMAIN gotnet \cup {n} |-> IF x = n THEN net[n] ELSE gotnet[x]]
        /\ UNCHANGED <<docker, client, backend, pc, todo, got, gotns, errors, answered, history>>
     \/ ~Existing(net[n]) /\ Fail("other")

NetworksRead ==
  /\ pc = "networks" /\ ntodo = {} /\ pc' = "info"
  /\ UNCHANGED <<docker, client, backend, todo, ntodo, got, gotnet, gotns, errors, answered, history>>

\* info() may fail: then it is left out.
ReadInfo ==
  /\ pc = "info" /\ pc' = "done" /\ answered' = TRUE
  /\ gotns' \in {FALSE} \cup (IF Answers THEN {userns} ELSE {})
  /\ UNCHANGED <<docker, client, backend, todo, ntodo, got, gotnet, errors, history>>

\* The file is read once; without a usable one the scan goes on without Docker, and asks none.
ReadFile ==
  /\ pc = "file" /\ UNCHANGED <<docker, client, backend, todo, ntodo, history>>
  /\ \/ /\ client["file"] = "ok" /\ pc' = "done" /\ answered' = TRUE
        /\ got' = [c \in Listed |-> box[c]] /\ gotnet' = [n \in {m \in Networks : Existing(net[m])} |-> net[n]]
        /\ gotns' = userns /\ errors' = errors
     \/ /\ client["file"] \in {"malformed", "badItem"} /\ pc' = "done"
        /\ errors' = <<IF client["file"] = "badItem" THEN "other" ELSE "malformed">>
        /\ UNCHANGED <<got, gotnet, gotns, answered>>
     \/ client["file"] = "fatal" /\ pc' = "crashed" /\ UNCHANGED <<got, gotnet, gotns, errors, answered>>

Read ==
  \/ ReadFile \/ CallFails \/ Connect \/ List \/ ReadNetworks \/ NetworksRead \/ ReadInfo
  \/ \E c \in Containers : Inspect(c)
  \/ \E n \in Networks : InspectNetwork(n)

\* The reason shown when no backend answered: of several, the one that says what to do.
LastError == errors[Len(errors)]
Reason ==
  LET said == {errors[i] : i \in DOMAIN errors}
      specific == {i \in DOMAIN errors : errors[i] # "notInstalled"}
  IN IF "permission" \in said THEN "permission"
     ELSE IF "notRunning" \in said THEN "notRunning"
     ELSE IF specific # {} THEN errors[CHOOSE i \in specific : \A j \in specific : i <= j]
     ELSE "notInstalled"

CollectNext == Event \/ Read
CollectSpec == CollectInit /\ [][CollectNext]_collection
-----------------------------------------------------------------------------
(* Nothing is invented: every container and network of the snapshot was   *)
(* as the snapshot says at some moment while the backend that answered was *)
(* being read.  Nothing a failed backend had read is mixed in.             *)
NothingInvented ==
  answered => /\ \A c \in DOMAIN got : got[c] \in was[c] /\ Present(got[c])
              /\ \A n \in DOMAIN gotnet : gotnet[n] \in netwas[n] /\ Existing(gotnet[n])

(* Nothing is missed: what existed all the while is in the snapshot, also  *)
(* a container that is stopped, and also if others come and go.            *)
NothingMissed ==
  answered => /\ \A c \in Containers : (\A b \in was[c] : Present(b)) => c \in DOMAIN got
              /\ \A n \in Networks : (\A x \in netwas[n] : Existing(x)) => n \in DOMAIN gotnet

(* The reason given for an unavailable Docker is the one to act on: "not   *)
(* installed" only if there is neither SDK nor command, "not running" only *)
(* if dockerd did not answer or the SDK, which is there and allowed, could *)
(* not connect (it does not say why); and a user without permission is     *)
(* told so even if the other backend failed for another reason.  Of a      *)
(* snapshot that is no good nothing of the kind is said.                   *)
ReasonTrue ==
  (pc = "done" /\ ~answered) =>
    /\ client["file"] # "missing" <=> backend = "file"
    /\ backend = "file" => Reason \in {"malformed", "other"}
    /\ Reason = "notInstalled" <=> backend # "file" /\ \A b \in Live : client[b] = "missing"
    /\ Reason = "permission" => \E b \in Live : client[b] = "denied"
    /\ Reason = "notRunning" => sawDown \/ (client["sdk"] = "ok" /\ errors[1] = "notRunning")
    /\ (backend # "file" /\ \E b \in Live : client[b] = "denied") =>
         Reason = "permission" \/ sawDown \/ \E i \in DOMAIN errors : errors[i] = "other"
=============================================================================
