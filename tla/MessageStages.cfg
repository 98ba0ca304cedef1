CONSTANTS
  TopicRoutes <- MCOverlapping
  OldFilters <- MCOldFilters
  EnforceTopicDeviceMatch = TRUE
  Topics <- MCTopics
  Payloads <- MCPayloads
  Trim <- MCTrim
  Envelope <- MCEnvelope
SPECIFICATION Spec
INVARIANTS StagesTypeOK SettledOnce DeviceKeepsItsTopic TransformSuffices StoredAsPublished RejectedStaysOut
