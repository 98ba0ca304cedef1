CONSTANTS
  a = a
  b = b
  c = c
  NoMessage = NoMessage
  Subscribe = Subscribe
  Messages <- MCMessages
  WorkerTotal = 2
  PerWorkerCap = 1
  RequestCapacity = 1
  RefusedBy <- MCRefusedBy
SPECIFICATION FairSpec
CHECK_DEADLOCK FALSE
INVARIANTS IngestionTypeOK BacklogIsSettled ReadyMeansSubscribed
PROPERTIES ImplementsLedger ConnectedBecomesReady ShutdownCompletes
