CONSTANTS
  a = a
  b = b
  Self = Self
  Peer = {p}
  Address = {a, b}
  List <- MCList
  Folder = {f, g}
  Slot = {1, 2}
  MaxActs = 2
  MaxFound = 2
SPECIFICATION FairSpec
INVARIANTS TypeOK OneRound NobodyLockedOut
PROPERTIES FriendsAreDialled OthersAreLeftAlone
