\* Channels, submissions, codes and limits, each in instances of its own.
SPECIFICATION Intake
CONSTANTS
  c1 = c1
  c2 = c2
  None = None
  Sessions = {c1, c2}
  Threads = {"thread 1"}
  Versions = {1, 2}
  First = 1
  Locked = FALSE
  Retries = 1
  Bodies = 2
  Ops = {"submit", "additional", "attach"}
  Nobody = None
VIEW Relevant
SYMMETRY Symmetric
INVARIANTS
  ChannelsHold
  SubmissionsTrue
  SubmissionsTogether
PROPERTIES
  GuessingIsLimited
CHECK_DEADLOCK FALSE
