SPECIFICATION TxSpec
CONSTANTS
  Tx = {t1, t2, t3}
  Keys = {k1, k2}
  Vals = {v}
  Tomb = Tomb
  Absent = Absent
  Nobody = Nobody
  Compactor = Compactor
SYMMETRY TxSymmetry
INVARIANT TxInv
PROPERTY ImplementsSI
