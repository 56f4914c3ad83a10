CONSTANTS
  Own = Own
  Garbage = Garbage
  Peer = Peer
  Client = Client
  Seqs <- LongSeqs
  Layouts <- MarshallerLayouts
  MaxArrivals = 3
  Datagram <- Datagrams
SPECIFICATION Spec
CONSTRAINT Bounded
INVARIANT OnlyForeignCalls
