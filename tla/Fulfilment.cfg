\* One booking, both workers, two deliveries at once, a duplicate and a retry.
CONSTANTS
  Queue = {"ticket", "mail"}
  Event = {b1}
  Copy = {m1, m2, m3}
  Job = {j1, j2}
  MaxAttempts = 2
  NoCopy = NoCopy
SPECIFICATION Spec
SYMMETRY Symmetry
INVARIANTS
  TypeOK
  NoEventIsLost
  SkippedLeavesNothing
PROPERTIES
  ImplementsWorkflow
