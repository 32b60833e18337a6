SPECIFICATION SelectionSpec
CONSTANTS
  Offers <- MCOffers
  Voltages = {5, 9, 12, 20}
INVARIANTS
  LoopComputesSelectPdo
  RequestNamesAnOffer
  VoltageRespected
CHECK_DEADLOCK FALSE
