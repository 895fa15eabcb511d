SPECIFICATION MCSpec
CONSTANTS
  TxSize = 3
  RxSize = 3
  MaxWrites = 6
  MaxArrivals = 4
  Calls <- AllCalls
  ReBegin = FALSE
INVARIANTS TypeOK TransmitSafe PromisedBytesAreThere ReceiveInOrder
PROPERTIES DropOnlyWhenFull AllBytesSent ImplementsPort
