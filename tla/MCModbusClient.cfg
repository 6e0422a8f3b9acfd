CONSTANTS
  Ops = {o1, o2}
  Sup = Sup
  NoOne = NoOne
SYMMETRY OpsSymmetry
SPECIFICATION CSpec
INVARIANTS
  CInv
  WireOnlyWhileConnected
PROPERTY ModifyIsAtomic
