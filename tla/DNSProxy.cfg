SPECIFICATION Spec
CONSTANTS
  Upstreams = 2
  Responses <- Messages
  MaxTTL = 3
  FakeOf <- FakeAddresses
CHECK_DEADLOCK FALSE
INVARIANTS AnswerLeadsToFakes FailsWhenAllFail
