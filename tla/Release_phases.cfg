SPECIFICATION Spec
CONSTANTS
  NULL = NULL
  MaxRuns = 2
  Successors = {"ready"}
  Trees <- MCTrees
  ReleaseIds = {r1}
  Revisions = {1, 2}
  MaxChanges = 2
INVARIANTS JointAfterChecks AdmittedIsInert
PROPERTY RolloutRefined
CHECK_DEADLOCK FALSE
