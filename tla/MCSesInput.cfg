\* Buffers of 10 bytes, reads of 1, 5 or 30
SPECIFICATION FairInputSpec
CONSTANTS
  SES_MSG_BUFFSIZE = 10
  SES_STARTCHUNK_PAD = 4
  SES_ENDCHUNK_PAD = 4
  SES_MAX_BUFFERS = 4
  SES_MAX_STARTCHUNK_SIZE = 5
  NCX_MAX_UINT = 20
  Docs <- MCDocs
  Malformed <- MCMalformed
  Greeting <- MCGreeting
  ReadSizes = {1, 5, 30}
  BackToBack = FALSE
  MaxDocs = 4
INVARIANTS BuffersSound PeersJudged
PROPERTIES ImplementsStream EverythingArrives
CHECK_DEADLOCK FALSE
