CONSTANTS
  a = a
  b = b
  Self = Self
  Peer = {p, q}
  Address = {a, b}
  List <- MCList
  Folder = {f}
  Slot = {1, 2}
  MaxActs = 1
  MaxFound = 0
SPECIFICATION FairSpec
INVARIANTS TypeOK OneRound NobodyLockedOut
PROPERTIES FriendsAreDialled OthersAreLeftAlone
