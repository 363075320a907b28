SPECIFICATION FocusSpec
CONSTANTS
  c1 = c1
  c2 = c2
  k1 = k1
  Calls = {c1, c2}
  Keys = {k1}
  Tools <- AllTools
  Assessments <- Statements
  Scopes <- AllScopes
  GrantKinds <- TwoGrants
  Trusts <- AllTrusts
  Consents <- BothConsents
  Expiries <- AllExpiries
  StoreFaults = FALSE
INVARIANTS
  TypeOK
  ExecutionGated
  ResultsGated
  TrailKept
SYMMETRY CallSymmetry
CHECK_DEADLOCK FALSE
