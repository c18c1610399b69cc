INIT MCInit
NEXT MCNext
CONSTANTS
  Separator = "backslash"
  Stacks <- MCStacks
  Statements = {}
  Letters = {"a"}
  Positional = {}
  Named = {}
  StrCap = 4
  Texts = {}
  MaxFields = 0
  Cap = 5
  Arrays = {"x", "y"}
  Kinds = {"scalar"}
  Heaps = {}
  MaxDepth = 3
  MaxItems = 2
INVARIANT SkipsVendor
CHECK_DEADLOCK FALSE
