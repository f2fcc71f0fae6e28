SPECIFICATION FairSpec
CONSTANTS
  Projects = {p1, p2}
  MaxDocs = 2
  MaxJobs = 3
  NoProject = NoProject
  Faults = {"throw", "timeout", "kill", "api", "notify"}
INVARIANT CompletedIsCertified
PROPERTIES CertifiedIsFinal ApprovalIsAnswered
CHECK_DEADLOCK FALSE
