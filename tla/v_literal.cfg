INIT MCInit
NEXT MCNext
CONSTANTS
  Separator = "slash"
  Stacks = {}
  Statements <- MCStatements
  Letters = {"a"}
  Positional <- MCPositional
  Named <- MCNamed
  StrCap = 2
  Texts = {}
  MaxFields = 0
  Cap = 5
  Arrays = {"x", "y"}
  Kinds = {"scalar"}
  Heaps = {}
  MaxDepth = 3
  MaxItems = 2
INVARIANT StringsStayStrings
CHECK_DEADLOCK FALSE
