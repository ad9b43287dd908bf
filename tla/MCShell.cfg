SPECIFICATION MCSpec
CONSTANTS
  Heads <- MCHeads
  Parts <- MCParts
  Scripts <- MCScripts
  Matched <- MCMatched
  Lines <- MCLines
  Opening <- MCOpening
  Values <- MCValues
  Entries = {"f", "tmp"}
  Notes = {"sigexit"}
  MaxSteps = 3
  Signals = {"hup"}
  Specs <- JobSpecs
  MaxWrites = 2
  MaxGraphs = 2
  MaxCalls = 3
INVARIANTS WaitTellsTheTruth FilesTellTheEnd PipesAreWhole FunctionsSurvive JobsAreAnsweredOnce
PROPERTIES CommandsReturn 
CHECK_DEADLOCK FALSE
