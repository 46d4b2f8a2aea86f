CONSTANTS
  A = A
  B = B
  C = C
  Device = {A, B, C}
  Source <- Relay
  Writer = {A}
  UserName <- MCUserName1
  Name <- Names
  Root <- MCRoot
  CopyName <- MCCopyName
  Lists <- MCLists
  Keep = 1
  MaxSecond = 0
  MaxOps = 3
  MaxFaults = 1
SPECIFICATION FairSpec
PROPERTIES Delivered
