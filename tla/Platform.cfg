CONSTANTS
  Callers = {c1, c2}
  MaxDeaths = 1
  Actions = {"runtime", "revoke"}
  Breakers = {"protected_path", "repeated_error"}
  Security = {"protected_path"}
  Keys = {1}
  MaxCalls = 4
  MaxApprovals = 1
  Order <- MCOrder
  Edges <- MCEdges
  Kinds <- MCKinds
  MaxAttempts = 2
  MaxWork = 5
  Notices = {"n1", "n2"}
  Severities = {1, 2}
  MaxNotices = 4
  RetryLimit = 2
  MaxMarks = 9
  Revisions = {"p1", "p2"}
  MaxLifecycle = 5
  MaxEdits = 1
  Definitions = {"d1", "d2", "d3"}
  Rendered <- MCRendered
  Suspect = {"d2"}
  MaxGoverns = 6
  Spans = {"root", "s1", "s2"}
  MaxTraceCalls = 5
  Observations = {"o1", "o2"}
  MaxEvalCalls = 6
  MaxFileChanges = 2
  Effects = {"e1", "e2"}
  Approvals = {TRUE, FALSE}
  MaxReplayCalls = 6
  Offers = {"s1"}
  Requested <- MCRequested
  EventTypes = {"message", "tool_call", "cancelled", "completed"}
  Tokens = {"t1", "t2"}
  RequestIds = {"q1"}
  MaxGatewayCalls = 5
  Plaintexts = {"x", "y"}
  MaxSecretCalls = 4
  Quotas <- MCQuotas
SPECIFICATION Spec
SYMMETRY MCSymmetry
INVARIANTS ProbesBounded RunMatchesSteps EmitsCounted SendsReported InstalledAsApproved SpansRooted VerdictsGrounded NothingRepeated StreamsTellAll BlobsOpen
PROPERTIES ActionsNotLost RevisionsAdvance
CHECK_DEADLOCK FALSE
