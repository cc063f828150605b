\* Only incidents that execute nothing.
CONSTANTS
  MaxRecnt = 3
  Trouble = {"break"}
SPECIFICATION Spec
INVARIANT FailedMeansNotApplied
