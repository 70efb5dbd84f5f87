SPECIFICATION FairSpec
CONSTANTS
  c1 = c1
  c2 = c2
  bridge = bridge
  host = host
  app = app
  Containers = {c1, c2}
  Networks = {bridge, host, app}
  Bridge = bridge
  Host = host
  Hosts <- MCHosts
  Files <- MCFiles
  Clients <- MCClients
  Commands <- MCCommands
  MaxEvents = 2
INVARIANTS TypeOK NothingInvented NothingMissed ReasonTrue Accounted SelectionNeutral RulesetObeyed ScoreTells GreenIsTrue RedIsTrue
PROPERTIES Ends
CHECK_DEADLOCK FALSE
