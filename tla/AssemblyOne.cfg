CONSTANTS
  Puller = {p1}
  Inode <- MCInode
  Block <- MCBlock
  Version <- MCVersion
  Old <- MCOld
  Hole = Hole
  Nil = Nil
  MaxCrashes = 3
SPECIFICATION Spec
INVARIANTS TypeOK WholeFile
PROPERTIES ReplacesAtomically
