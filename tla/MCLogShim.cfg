SPECIFICATION Spec
CONSTANTS
  Streams = {"stdout", "stderr"}
  NoStream = "none"
  Codes <- MCCodes
  MaxItems <- MCMaxItems
  PipeSize = 2
  BufSize = 2
  MaxFaults = 1
INVARIANT EntriesWhole
INVARIANT LogIsPrefix
INVARIANT EndedIsLogged
INVARIANT ExitTells
PROPERTY PipesAreRead
\* logshim ends.
CHECK_DEADLOCK FALSE
