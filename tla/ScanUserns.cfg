SPECIFICATION Spec
CONSTANTS
  c1 = c1
  c2 = c2
  bridge = bridge
  host = host
  app = app
  Containers = {c1, c2}
  Networks = {bridge, host, app}
  Bridge = bridge
  Host = host
  Hosts <- MCHosts
  Files <- MCFiles
  Clients <- MCClients
  Commands <- MCCommands
  MaxEvents = 0
INVARIANT UsernsNeutral
CHECK_DEADLOCK FALSE
