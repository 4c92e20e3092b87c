SPECIFICATION DecodersSpec
CONSTANTS
  MaxInt <- MCMaxInt
  NetstrMessages <- MCNetstrMessages
  NetstrStreams <- MCNetstrStreams
  RfcStreams <- MCRfcStreams
  MaxResets = 1
  Texts <- MCTexts
  TokenSequences <- MCTokenSequences
INVARIANTS
  NetstrDecoded
  RfcLinesExact
  RfcNoByteLost
  LexedByRuns
  QueryAccepted
  TreeByPrecedence
