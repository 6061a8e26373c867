\* Every network of up to six switches and eight links.
SPECIFICATION FairPlanSpec
CONSTANTS
  N = 6
  MaxLinks = 8
  Networks <- MCNetworks
INVARIANTS
  PlanTypeOK
  LinksTakenOnce
PROPERTY
  PlansOptimally
