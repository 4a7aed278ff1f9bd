CONSTANTS
  Event = {1}
  Endpoint = {1}
  MaxRetries = 4
  Topic = {"orders"}
  TopicOf <- OneTopic
  BatchSize = 1
  Instance = {i1}
  Concurrency = 1
  Scenario = {"storeError", "crash"}
  Delays <- TwoDelays
  MaxTime = 5
SPECIFICATION BackoffSpec
INVARIANTS BackoffTypeOK RetriesWait DeadAfterDelays
