SPECIFICATION FairSpec
CONSTANTS
  TopicCount = 3
  MaxRefreshTopics = 2
  RefreshBatchSize = 1
  MaxEpoch = 2
INVARIANTS CycleIsBounded AtMostOneLate
PROPERTY EveryTopicInTurn
