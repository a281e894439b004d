CONSTANTS
  Callers = {c1, c2}
  MaxDeaths = 0
  Actions = {"runtime", "revoke"}
  Breakers = {"protected_path", "repeated_error"}
  Security = {"protected_path"}
  Keys = {1}
  MaxCalls = 4
  MaxApprovals = 1
  Order <- MCOrder
  Edges <- MCEdges
  Kinds <- MCKinds
  MaxAttempts = 2
  MaxWork = 5
  Notices = {"n1", "n2"}
  Severities = {1, 2}
  MaxNotices = 4
  RetryLimit = 2
  MaxMarks = 9
  Revisions = {"p1", "p2"}
  MaxLifecycle = 5
  MaxEdits = 1
  Definitions = {"d1", "d2", "d3"}
  Rendered <- MCRendered
  Suspect = {"d2"}
  MaxGoverns = 6
  Spans = {"root", "s1"}
  MaxTraceCalls = 1
  Observations = {"o1"}
  MaxEvalCalls = 1
  MaxFileChanges = 0
  Effects = {"e1"}
  Approvals = {TRUE}
  MaxReplayCalls = 1
  Offers = {"s1"}
  Requested <- MCRequested
  EventTypes = {"message", "tool_call", "cancelled", "completed"}
  Tokens = {"t1", "t2"}
  RequestIds = {"q1"}
  MaxGatewayCalls = 5
  Plaintexts = {"x", "y"}
  MaxSecretCalls = 4
  Quotas <- MCBreakerQuotas
SPECIFICATION Spec
SYMMETRY MCSymmetry
INVARIANT OpenBreakerStops
CHECK_DEADLOCK FALSE
