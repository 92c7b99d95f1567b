\* No other producer fills the outgoing queue while a request is sent.
CONSTANTS
  Requests = {1, 2, 3}
  KindOf <- MCKindOf
  LayerOf <- MCLayerOf
  Responses <- MCResponses
  ResponseKind <- MCResponseKind
  ResponseLayer <- MCResponseLayer
  TotalPackets <- MCTotalPackets
  MaxPacketNo = 2
  Timeout = 1
  RequestCap = 1
  OutgoingCap = 4
  OthersMay = 1
  None = None
SPECIFICATION FairTimedSpec
INVARIANTS TypeOK OkMeansComplete OwnChunksOnly
PROPERTIES TimesOutOnTime PromiseSpec EveryRequestAnswered
