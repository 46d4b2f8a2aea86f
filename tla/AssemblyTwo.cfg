CONSTANTS
  Puller = {p1, p2}
  Inode <- MCInode
  Block <- MCBlock
  Version <- MCVersion
  Old <- MCOld
  Hole = Hole
  Nil = Nil
  MaxCrashes = 0
SPECIFICATION Spec
INVARIANTS WholeFile
