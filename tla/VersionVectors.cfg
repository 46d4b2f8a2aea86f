CONSTANTS
  Device = {d1, d2, d3}
  MaxCount = 3
SPECIFICATION VSpec
SYMMETRY Symmetry
INVARIANTS VTypeOK CompareIsCausal
