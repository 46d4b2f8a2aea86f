CONSTANTS
  A = A
  B = B
  C = C
  Device = {A, B}
  Source <- OneWay
  Writer = {A, B}
  UserName <- MCUserName2
  Name <- Names
  Root <- MCRoot
  CopyName <- MCCopyName
  Lists <- MCLists
  Keep = 1
  MaxSecond = 1
  MaxOps = 3
  MaxFaults = 1
SPECIFICATION FairSpec
INVARIANTS TypeOK NoForeignContent UserWorkKept
PROPERTIES Delivered
