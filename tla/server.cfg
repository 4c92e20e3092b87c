SPECIFICATION Spec
CONSTANTS
  Inputs <- MCInputs
  Results <- MCResults
  BadQuery = "bad"
  ErrorText = "error"
  SockCap = 1
  MaxItems = 3
INVARIANTS
  AnswersDecoded
  PageComplete
PROPERTIES
  SearchReleased
  Answered
