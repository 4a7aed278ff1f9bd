CONSTANTS
  Event = {1}
  Endpoint = {1, 2}
  MaxRetries = 2
  Topic = {"orders"}
  TopicOf <- OneTopic
  BatchSize = 2
  Instance = {i1}
  Concurrency = 1
  Scenario = {"bulkReplay"}
SPECIFICATION FairSpec
INVARIANTS NoStrandedEvent StatusIsEarned
PROPERTY EventuallySettled
