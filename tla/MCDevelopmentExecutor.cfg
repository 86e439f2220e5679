CONSTANTS
  Kind = "Application"
  Execs = {e1, e2}
  Readers = {r1, r2}
  g1 = g1
  Gates = {g1}
  None = None
  MaxScripts = 2
  Requests <- MCRequests
  Outcomes <- MCOutcomes
SPECIFICATION Spec
INVARIANTS ResultIsJust BodyAsScripted GateWakes
CHECK_DEADLOCK FALSE
SYMMETRY Symmetric
