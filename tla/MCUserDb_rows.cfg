CONSTANTS
  Account = {a1, a2, a3}
  NoAccount = NoAccount
  Address = {i1, i2}
  CharName = {n1, n2}
  NoCharName = NoCharName
  OldRows = 2
  MaxRows = 4
SYMMETRY Symmetry
SPECIFICATION Spec
INVARIANTS AccountsUnique
PROPERTY AccountKept
