CONSTANTS
  A = A
  B = B
  C = C
  Device = {A, B}
  Source <- OneWay
  Writer = {A, B}
  UserName <- MCUserName1
  Name <- Names
  Root <- MCRoot
  CopyName <- MCCopyName
  Lists <- MCLists
  Keep = 10
  MaxSecond = 0
  MaxOps = 3
  MaxFaults = 0
SPECIFICATION Spec
PROPERTIES OverwrittenIsArchived
