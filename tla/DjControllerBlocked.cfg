\* The outgoing queue, of capacity 1 here, can be full when a request is sent.
CONSTANTS
  Requests = {1, 2, 3}
  KindOf <- MCKindOf
  LayerOf <- MCLayerOf
  Responses <- MCResponses
  ResponseKind <- MCResponseKind
  ResponseLayer <- MCResponseLayer
  TotalPackets <- MCTotalPackets
  MaxPacketNo = 2
  Timeout = 1
  RequestCap = 1
  OutgoingCap = 1
  OthersMay = 1
  None = None
SPECIFICATION FairTimedSpec
PROPERTY EveryRequestAnswered
\* The worker thread may block for ever: that is what the run shows.
CHECK_DEADLOCK FALSE
