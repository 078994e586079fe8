SPECIFICATION Spec
CONSTANTS
  main = main
  f1 = f1
  f2 = f2
  Main = main
  NoBranch = none
  Branches <- MCBranches
  Published <- MCPublished
  Features <- MCFeatures
  Edits = {e1, e2}
  Runs = {r1, r2}
  Circumstances <- MCCircumstances
INVARIANT EditsKept
PROPERTIES AnswersTrue DefaultConfirmed
CHECK_DEADLOCK FALSE
SYMMETRY Alike
