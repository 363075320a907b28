SPECIFICATION FocusSpec
CONSTANTS
  Calls = {c1, c2}
  Keys = {k1}
  Tools <- SchemaTools
  Assessments <- OneStatement
  Scopes <- NoEdits
  GrantKinds <- NoEdits
  Trusts <- NoEdits
  Consents <- NoEdits
  Expiries <- NoEdits
  StoreFaults = FALSE
INVARIANTS
  MidflightRevokeAudited
CHECK_DEADLOCK FALSE
