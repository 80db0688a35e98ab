SPECIFICATION FairSpec
CONSTANTS
  Lines <- MCLines
  NextLines <- MCNextLines
  MAXARGS = 4
  NPROC = 5
  MaxLines = 2
INVARIANTS
  ParsesGrammar
  Plumbed
  PromptAfterAll
PROPERTY
  LinesEnd
