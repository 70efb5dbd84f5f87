SPECIFICATION Spec
CONSTANTS
  Containers <- MCContainers
  Custom <- MCCustom
  AppNet = "app-net"
  Service <- MCService
  MaxChanges = 2
  Sources <- MCSources
  Target = "rabbitmq"
  Setups <- FailedPairs
  Bridges = {"open", "blocked"}
  Asks <- MCAsks
CHECK_DEADLOCK FALSE
INVARIANTS FailCannotCommunicate
