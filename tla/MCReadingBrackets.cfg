CONSTANTS
  Path <- MCPath
  Uri = {"https:u"}
  Bare = {"#x"}
  Content <- MCContent
  Decoded <- MCDecoded
  TextGraphs <- MCTextGraphs
  None = None
  NoHash = NoHash
  Trees <- MCTrees
  Earlier <- MCEarlier
  KeyOrder <- MCKeyOrder
  SeedLists <- MCSeedLists
  Bounds = {1, 2, None}
  Policies <- MCPolicies
  Parts <- MCParts
  Matching <- MCMatching
  Commands <- MCBracketCommands
SPECIFICATION ReadingSpec
INVARIANTS
  DirectoryIsItsSubtree
CHECK_DEADLOCK FALSE
