CONSTANTS
  Event = {1}
  Endpoint = {1}
  MaxRetries = 1
  Topic = {"orders"}
  TopicOf <- OneTopic
  BatchSize = 1
  Instance = {i1}
  Concurrency = 1
  Scenario = {"storeError", "replay", "purge", "update", "delete"}
  Request = {r1}
SPECIFICATION ManagementSpec
INVARIANTS ManagementTypeOK DetailExplainsStatus
PROPERTIES ManagementIsPipeline UnnamedFieldsKept
