SPECIFICATION Spec
CONSTANTS
  Tasks = {t1, t2, t3}
  CredSecrets = {k1}
  OtherSecrets = {k2}
  Settings = {x, y}
  Modes <- MCModes
  Origins <- MCOrigins
  Budgets <- MCBudgets
  ProtocolResends = 1
  None = None
SYMMETRY Symmetric
INVARIANTS ConfigIsolation LoginNotLost FreshSecrets SendsWithinMode
