SPECIFICATION Spec
CONSTANTS
  Runs = {p1, p2, p3, p4}
INVARIANTS ReportedIsReplayed
