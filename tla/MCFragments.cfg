CONSTANTS
  f1 = f1  f2 = f2  X = X  Y = Y  Z = Z
  a = a  b = b  held = held  lost = lost  Empty = empty  None = none
  FragmentIds = {f1, f2}
  Variables = {X, Y, Z}
  Literals = {a, b, held, lost, empty}
  References = {held, lost}
  Writers = {w1, w2, w3}
  Runs = {r1}
  Before <- MCBefore
  Sent <- MCSent
  Workflows <- MCWorkflows
  Overrides <- MCOverrides
  Environments <- MCEnvironments
  Vault <- MCVault
SPECIFICATION Spec
SYMMETRY AnyWriter
INVARIANTS TypeOK VersionCounts NothingComesBack ExpandedInPlace TokensMeanTheirValues
CHECK_DEADLOCK FALSE
