CONSTANTS
  Event = {1}
  Endpoint = {1}
  MaxRetries = 3
  Topic = {"orders"}
  TopicOf <- OneTopic
  BatchSize = 1
  Instance = {i1}
  Concurrency = 1
  Scenario = {"storeError", "crash", "replay", "bulkReplay", "purge", "update", "delete"}
SPECIFICATION Spec
INVARIANTS TypeOK HistoryUnbroken InFlightJustified MarksRecorded StatusIsEarned
  DeadAfterAllAttempts DeletedIsDone
PROPERTIES EventsAreKept ImplementsLedger
