CONSTANTS
  Event = {1}
  Endpoint = {1}
  MaxRetries = 2
  Topic = {"orders"}
  TopicOf <- OneTopic
  BatchSize = 1
  Instance = {i1}
  Concurrency = 1
  Scenario = {}
SPECIFICATION Spec
INVARIANT EveryAttemptOnce
