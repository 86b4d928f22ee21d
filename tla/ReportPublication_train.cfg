SPECIFICATION Spec
CONSTANTS
  Run = {r1}
  Outcome = {"completed", "failed"}
  Fallbacks = 2
CHECK_DEADLOCK FALSE
INVARIANT ReportsAgree
