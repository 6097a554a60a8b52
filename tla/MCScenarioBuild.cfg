SPECIFICATION ScenarioSpec
CONSTANTS
  None = None
  RandomIds <- MCRandomIds
  PeerRank <- MCPeerRank
  IdLists <- MCIdLists
  Counts = {0, 1, 3}
  PortCounts = {3}
  Users = {0, 1, 3}
  Funds = {2, 5}
  Rates = {0, 2}
  Durations = {60}
  Percents = {0}
  Delays = {0, 40}
  Ports = {1, 2}
  Slot = 2
  MaxCalls = 5
CHECK_DEADLOCK FALSE
INVARIANTS GenesisSound InputsExist RemoteAgrees PlansAgree
