CONSTANTS
  Event = {1}
  Endpoint = {1}
  MaxRetries = 2
  Topic = {"orders"}
  TopicOf <- OneTopic
  BatchSize = 1
  Instance = {i1}
  Concurrency = 2
  Scenario = {"storeError", "crash"}
SPECIFICATION FairShutdownSpec
INVARIANTS LifeTypeOK StoppedIsQuiet FirstAttemptOnce
PROPERTIES ShutdownIsPipeline ShutdownEnds RetriesSurviveRestarts
