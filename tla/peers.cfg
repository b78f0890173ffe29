SPECIFICATION Spec
CONSTANTS
  alice = alice
  bob = bob
  NoUuid = NoUuid
  NoPeer = NoPeer
  NoIdentity = NoIdentity
  NoList = NoList
  Peers <- MCPeers
  MaxConns = 2
  MaxEvents = 4
SYMMETRY MCSymmetry
INVARIANTS
  TypeOK
  MapsAgree
  FileCurrent
  ConnectedKnown
  RegisteredTold
CHECK_DEADLOCK FALSE
