\* Two requests for a kind of several packets, two calls, one loss, and an outgoing queue that two answers overflow.
CONSTANTS
  Requests <- MCRequests
  KindOf <- MCKindOf
  MaxTotal = 2
  OutgoingCap = 2
  MaxCalls = 2
  MaxLosses = 1
SPECIFICATION Spec
INVARIANTS TypeOK FreshAnswers WholeAnswers WaitsForSomething
CHECK_DEADLOCK FALSE
