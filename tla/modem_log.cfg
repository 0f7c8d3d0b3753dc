SPECIFICATION FairSpec
CONSTANTS
  MaxLog = 4
  Foreign = {2}
  MaxFileNums <- MCMaxFileNums
  Polls = 2
  MaxEvents = 2
INVARIANTS LoggingRestored NewestCopied
PROPERTIES QuietCopy LoggingComesBack
