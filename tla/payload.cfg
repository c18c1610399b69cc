INIT MCInit
NEXT MCNext
CONSTANTS
  Separator = "slash"
  Stacks <- MCStacks
  Statements <- MCStatements
  Letters = {"a"}
  Positional <- MCPositional
  Named <- MCNamed
  StrCap = 4
  Texts <- MCFitTexts
  MaxFields = 2
  Cap = 5
  Arrays = {"x", "y"}
  Kinds = {"scalar"}
  Heaps <- MCHeaps
  MaxDepth = 3
  MaxItems = 2
INVARIANTS SkipsVendor NearestOtherwise ReplacesPlaceholders StringsStayStrings CutAtCharacter ShowsInOrder
CHECK_DEADLOCK FALSE
