SPECIFICATION Spec
CONSTANTS
  a = a
  Peers = {a}
  Self = Self
  NoPeer = NoPeer
  SeqLen = 16
  Social <- MCSocial
  FillOrder <- MCFill
  NoIr = {52}
  Worlds <- MCWorlds
  Advertised <- MCAdvertised
  Anchor = 36
  RocChannel = 149
  Debounce = 2
  PinTime = 2
  SpreadCap = 1
  SpreadTtl = 32
  TxCap = 2
  TxPerPeer = 2
  TxAge = 4
  RxCap = 1
  RxAge = 2
  Leads = {0, 1, 2}
  NoLead <- MCNoLead
  Retry = 2
  Cookies = {1}
  MaxEarly = 2
  ReadyLimit = 3
  MaxRequests = 2
INVARIANT FollowersVisitSocial
