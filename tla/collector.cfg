SPECIFICATION Spec
CONSTANTS
  Conns = {c1}
  Streams <- MCStreams
  Packets <- MCPackets
  MsgBufSize <- MCMsgBufSize
  MaxPending = 1
  MaxTimeouts = 2
INVARIANTS
  FramedExactly
  WholeUnlessInterrupted
  PacketsWhole
  SequencesOrdered
PROPERTIES
  BufferFlushed
