------------------------------ MODULE DockerHost ------------------------------
(***************************************************************************)
(* The Docker host that dockguard looks at but does not implement: what    *)
(* containers and networks there are, how they come to change, and which   *)
(* container really reaches which.  It is as the texts of                  *)
(* src/dockguard/diagnostics/connectivity.py and of rule NET-001 describe  *)
(* Docker: a connection made by hand is lost when the container is created *)
(* anew, `docker run` attaches to the default bridge only, icc is read at  *)
(* the start of dockerd and matters to the default bridge only, a port     *)
(* published on all addresses is reached through the IP of the host.       *)
(***************************************************************************)
EXTENDS Naturals

CONSTANTS
  Containers,
  Custom,      \* the networks made with `docker network create`
  AppNet,      \* the one the advice creates
  Service,     \* the containers of a container's compose service
  MaxChanges   \* bound on the changes nobody advised

Bridge == "bridge"
Networks == Custom \cup {Bridge}

ASSUME HostAssumption ==
  /\ AppNet \in Custom /\ {Bridge, "none", "host"} \cap Custom = {}
  /\ {"own", "none", "host", "gone", "lost"} \cap Containers = {}
  /\ Service \in [Containers -> SUBSET Containers]
  /\ \A c \in Containers : c \in Service[c] /\ \A d \in Service[c] : Service[d] = Service[c]
  /\ MaxChanges \in Nat

VARIABLES
  box,       \* the containers, as `docker inspect` shows them
  declared,  \* what compose creates them from
  net,       \* the networks: "absent", "open", or "blocked" (enable_icc=false)
  iccOff,    \* daemon.json says icc: false
  changes

host == <<box, declared, net, iccOff, changes>>

\* network_mode "own" stands for a network list, a container for container:<x>,
\* and "gone" for the container:<x> of an x that was created anew since.
\* `published`: the port somebody asks for, or any if none, is one of the host,
\* on its loopback address or on all of them.
Modes == {"own", "none", "host"} \cup Containers
Publications == {"no", "loopback", "everywhere"}
Settings == [mode : Modes, joined : SUBSET Networks, published : Publications]

HostTypeOK ==
  /\ box \in [Containers -> [state : {"missing", "stopped", "running"}, mode : Modes \cup {"gone"},
                             joined : SUBSET Networks, published : Publications]]
  /\ declared \in [Containers -> Settings]
  /\ net \in [Networks -> {"absent", "open", "blocked"}] /\ net[Bridge] # "absent"
  /\ \A c \in Containers : \A n \in box[c].joined \cup declared[c].joined : net[n] # "absent"
  /\ iccOff \in BOOLEAN /\ changes \in 0 .. MaxChanges

Running(c) == box[c].state = "running"
Exists(c) == box[c].state # "missing"

Inspected(state, s) == [state |-> state, mode |-> s.mode, joined |-> s.joined, published |-> s.published]

HostInit(setups, bridges) ==
  /\ declared \in setups
  /\ box = [c \in Containers |-> Inspected("running", declared[c])]
  /\ net \in {[n \in Networks |-> IF n = AppNet THEN "absent" ELSE f[n]] : f \in [Networks -> bridges]}
  /\ iccOff = (net[Bridge] = "blocked") /\ changes = 0
-----------------------------------------------------------------------------
(* Who reaches whom.                                                       *)

\* The network namespace a running container is in; nobody shares "lost".
Space(c) ==
  LET m == box[c].mode IN
  CASE m = "host" -> "host"
    [] m \in {"own", "none"} -> c
    [] m = "gone" -> "lost"
    [] OTHER -> IF ~Running(m) \/ box[m].mode \notin {"own", "none", "host"} THEN "lost"
                ELSE IF box[m].mode = "host" THEN "host" ELSE m

\* The networks a namespace is linked to.
Links(space) ==
  IF space \in Containers /\ box[space].mode = "own" THEN box[space].joined ELSE {}

\* At an address of its own, or of the host if that is where it is.
Direct(s, t) ==
  /\ Running(s) /\ Running(t) /\ Space(s) # "lost" /\ Space(t) # "lost"
  /\ \/ Space(s) = Space(t)
     \/ Space(t) = "host" /\ Links(Space(s)) # {}
     \/ \E n \in Links(Space(s)) \cap Links(Space(t)) : net[n] = "open"

\* Through a published port, which belongs to the container whose namespace it
\* is: on the host any will do, from a container one that is not on loopback.
ThroughHost(s, t) ==
  /\ Running(s) /\ Running(t) /\ Links(Space(t)) # {}
  /\ \/ Space(s) = "host" /\ box[Space(t)].published # "no"
     \/ Links(Space(s)) # {} /\ box[Space(t)].published = "everywhere"

Reaches(s, t) == Direct(s, t) \/ ThroughHost(s, t)
-----------------------------------------------------------------------------
(* Docker commands, as changes of `box`.                                   *)

\* docker network connect; it refuses a container without networks of its own.
Connected(b, cs, n) ==
  [c \in Containers |-> IF c \in cs /\ b[c].state # "missing" /\ b[c].mode = "own"
                        THEN [b[c] EXCEPT !.joined = @ \cup {n}] ELSE b[c]]

\* Containers created from their declarations; who shared the network of an
\* old container keeps a namespace that no longer has one.
Created(b, d, cs) ==
  [c \in Containers |-> IF c \in cs THEN Inspected("running", d[c])
                        ELSE IF b[c].mode \in cs THEN [b[c] EXCEPT !.mode = "gone"] ELSE b[c]]

Available(n) == IF net[n] = "absent" THEN [net EXCEPT ![n] = "open"] ELSE net

\* What happens to the host without anyone asking dockguard.
Change ==
  /\ changes < MaxChanges /\ changes' = changes + 1
  /\ UNCHANGED declared

Stop(c) ==
  /\ Change /\ Running(c) /\ box' = [box EXCEPT ![c].state = "stopped"]
  /\ UNCHANGED <<net, iccOff>>

Remove(c) ==
  /\ Change /\ Exists(c)
  /\ box' = [Created(box, declared, {c}) EXCEPT ![c].state = "missing"]
  /\ UNCHANGED <<net, iccOff>>

ForceRecreate(c) ==
  /\ Change /\ box' = Created(box, declared, Service[c])
  /\ UNCHANGED <<net, iccOff>>

\* docker run in place of compose
RunByHand(c) ==
  /\ Change
  /\ box' = Created(box, [declared EXCEPT ![c] = [mode |-> "own", joined |-> {Bridge}, published |-> "no"]], {c})
  /\ UNCHANGED <<net, iccOff>>

Disconnect(c, n) ==
  /\ Change /\ n \in box[c].joined /\ box' = [box EXCEPT ![c].joined = @ \ {n}]
  /\ UNCHANGED <<net, iccOff>>

EditDaemon == Change /\ iccOff' = ~iccOff /\ UNCHANGED <<box, net>>

RestartDockerd ==
  /\ Change /\ net' = [net EXCEPT ![Bridge] = IF iccOff THEN "blocked" ELSE "open"]
  /\ UNCHANGED <<box, iccOff>>

HostNext ==
  \/ \E c \in Containers : Stop(c) \/ Remove(c) \/ ForceRecreate(c) \/ RunByHand(c)
                           \/ \E n \in Networks : Disconnect(c, n)
  \/ EditDaemon \/ RestartDockerd
=============================================================================
