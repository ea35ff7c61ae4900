SPECIFICATION MibSpec
CONSTANTS
  StaticSize = 2
  MaxSize = 128
  Word = 65536
  Buckets = 2
  MaxLoads = 2
  Hash <- MCHash
  Capitalised <- MCCapitalised
  TrapsOf <- MCTrapsOf
  HintOf <- MCHintOf
  Files <- MCFiles
  ScriptFiles <- MCScriptFiles
  Content <- MCContent
  CoreFiles <- MCCore
  SiteFiles <- MCSite
  WalkRoots <- MCWalkRoots
INVARIANTS MibExact 
