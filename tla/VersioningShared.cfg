CONSTANTS
  Txt = Txt
  NoExt = NoExt
  ExtPlace <- MCExtPlace
  Name <- TwoNames
  Keep = 2
  MaxSecond = 1
  MaxPrunes = 6
  MaxStops = 1
SPECIFICATION Spec
PROPERTIES PrunesOwnCopies
