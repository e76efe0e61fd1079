SPECIFICATION FairSpec
CONSTANTS
  RX_BUFFER_SIZE = 6
  LINE_BUFFER_SIZE = 2
  Alphabet = {"g", "space", "open", "close", "semicolon", "eol"}
INVARIANTS TypeOK NeverFull LineIntact
PROPERTIES Answered ResetAnswered
