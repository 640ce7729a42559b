SPECIFICATION HostSpec
CONSTANTS
  TABLE_MAX = 4
  DNS_MAX = 2
  MAXNS = 3
  MAXDNSRCH = 2
  MAXRESOLVSORT = 3
  RES_MAXNDOTS = 15
  NetBiosName <- MCNetBiosName
  Worlds <- MCWorlds
  Hosts <- MCHosts
INVARIANTS
  InterfacesUsable
  HostNameSticks
  ServersKept
  SearchAgrees
  AdaptersFound
CHECK_DEADLOCK FALSE
