\* A worker that has never been started.
CONSTANTS
  Queue = {"ticket", "mail"}
  Event = {b1}
  Copy = {m1, m2, m3}
  Job = {j1, j2}
  MaxAttempts = 2
  NoCopy = NoCopy
SPECIFICATION Spec
INVARIANT
  PublishedEventsAreVisible
