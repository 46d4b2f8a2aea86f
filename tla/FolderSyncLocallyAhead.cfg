CONSTANTS
  A = A
  B = B
  C = C
  Device = {A, B}
  Source <- Mutual
  Writer = {A, B}
  UserName <- MCUserName1
  Name <- Names
  Root <- MCRoot
  CopyName <- MCCopyName
  Lists <- MCLists
  Keep = 1
  MaxSecond = 0
  MaxOps = 2
  MaxFaults = 0
SPECIFICATION Spec
PROPERTIES LocallyAheadKept
