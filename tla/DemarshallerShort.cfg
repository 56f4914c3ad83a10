CONSTANTS
  Own = Own
  Garbage = Garbage
  Peer = Peer
  Client = Client
  Seqs <- ShortSeqs
  Layouts <- AllLayouts
  MaxArrivals = 3
  Datagram <- Datagrams
SPECIFICATION Spec
CONSTRAINT Bounded
INVARIANTS TypeOK OnlyForeignCalls WholeOrNothing LossAfterRejected
