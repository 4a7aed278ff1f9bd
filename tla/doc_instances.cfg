CONSTANTS
  Event = {1}
  Endpoint = {1}
  MaxRetries = 1
  Topic = {"orders"}
  TopicOf <- OneTopic
  BatchSize = 1
  Instance = {i1, i2}
  Concurrency = 1
  Scenario = {}
SPECIFICATION Spec
INVARIANT FirstAttemptOnce
