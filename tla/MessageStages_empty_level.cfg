CONSTANTS
  TopicRoutes <- MCRoutes
  OldFilters <- MCNoFilters
  EnforceTopicDeviceMatch = TRUE
  Topics <- MCTopics
  Payloads <- MCGood
  Trim <- MCTrim
  Envelope <- MCEnvelope
SPECIFICATION Spec
INVARIANTS DeliveredIsRouted
