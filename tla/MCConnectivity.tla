---------------------------- MODULE MCConnectivity ----------------------------
(***************************************************************************)
(* Connectivity for TLC: a backend of two containers, its message queue,   *)
(* and a third container whose network the others may share.               *)
(***************************************************************************)
EXTENDS Connectivity

MCContainers == {"backend-1", "backend-2", "rabbitmq", "vpn"}
MCSources == <<"backend-1", "backend-2">>
MCService == [c \in MCContainers |-> IF c \in {"backend-1", "backend-2"} THEN {"backend-1", "backend-2"} ELSE {c}]
MCCustom == {"mq-net", "app-net"}

On(nets) == [mode |-> "own", joined |-> nets, published |-> "no"]
Mode(m) == [mode |-> m, joined |-> {}, published |-> "no"]
Published(s, where) == [s EXCEPT !.published = where]

Setup(backend, rabbitmq) ==
  [c \in MCContainers |-> IF c = "rabbitmq" THEN rabbitmq ELSE IF c = "vpn" THEN On({"mq-net"}) ELSE backend]

MCSetups ==
  {Setup(On({"bridge"}), On({"bridge"})), Setup(On({"bridge"}), On({"mq-net"})),
   Setup(On({"bridge", "mq-net"}), Published(On({"mq-net", "bridge"}), "everywhere")),
   Setup(On({"bridge"}), Published(On({"mq-net"}), "everywhere")),
   Setup(Mode("host"), Published(On({"mq-net"}), "loopback")),
   Setup(Mode("none"), On({"mq-net"})), Setup(On({"mq-net"}), Mode("none")),
   Setup(Mode("host"), On({"mq-net"})), Setup(On({"mq-net"}), Mode("host")),
   Setup(Mode("vpn"), On({"mq-net"})), Setup(On({"mq-net"}), Mode("vpn"))}

MCAsks == {[port |-> "unset", addresses |-> <<"name", "ip">>], [port |-> "unlisted", addresses |-> <<"self", "alias">>]}

HostPair == Setup(Mode("host"), Mode("host"))
PublishedPair == Setup(On({"bridge"}), Published(On({"mq-net"}), "everywhere"))
FailedPairs == {HostPair, PublishedPair}
=============================================================================
