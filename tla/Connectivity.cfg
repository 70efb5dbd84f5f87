SPECIFICATION FairSpec
CONSTANTS
  Containers <- MCContainers
  Custom <- MCCustom
  AppNet = "app-net"
  Service <- MCService
  MaxChanges = 2
  Sources <- MCSources
  Target = "rabbitmq"
  Setups <- MCSetups
  Bridges = {"open", "blocked"}
  Asks <- MCAsks
CHECK_DEADLOCK FALSE
INVARIANTS NoFalsePass NoFalseAlarm RuleTrue RuleAgrees
PROPERTIES Repaired NeverBackwards RuleRecovers
