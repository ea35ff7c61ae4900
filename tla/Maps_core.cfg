SPECIFICATION Spec
CONSTANTS
  Kinds = {"group", "node", "port", "link"}
  MaxItems = 4
  MaxEdits = 1
  Holders = {"map", "item"}
  TheMap = "map"
  Expire <- MCExpire
  Ticks = {0, 1}
  Messages <- MCMessages
  MaxMsgs = 2
  Places = {"map", "item"}
  Root = "map"
  Up <- MCUp
  Tags = {"a", "b"}
  Patterns <- MCPatterns
  MaxBinds = 2
  MaxEvents = 2
  e1 = e1
  Editor = e1
  Editors = {e1}
  MaxId = 3
  Types = {"NODE", "GROUP", "LINK"}
  MaxArgs = 1
  Labelled = {1}
  Seeds <- MCSeeds
INVARIANTS  AllBindingsRun ObjectsConsistent CopyRestores
PROPERTIES  MessagesWritten
CHECK_DEADLOCK FALSE
